---- MODULE Spec2Model ----
(***************************************************************************)
(* Model of the pi_signage e-mail pipelines.                               *)
(*                                                                         *)
(* Intake (check_read_email.py): the poll loop of main(), the session      *)
(* handling of open_email_inbox / close_email_link, one cycle of           *)
(* read_emails / delete_emails, the SIGINT handler, and the pure helpers   *)
(* clean and check_mail_auth.                                              *)
(*                                                                         *)
(* Command interpreter (process_messages.py): one run of main() over the   *)
(* messages folder, process_files file by file and process_data line by    *)
(* line, with the verb handlers and the two trigger files.                 *)
(*                                                                         *)
(* Text is modelled as a sequence of one-character strings, so that        *)
(* str(), clean() and the regular expression of check_mail_auth are        *)
(* computed character by character.                                        *)
(***************************************************************************)
EXTENDS Integers, Sequences, FiniteSets, TLC

\* ------------------------------------------------------------------------
\* Bounds of the model
MaxUid == 2
MaxInbox == 2
MaxFromLen == 5

\* ------------------------------------------------------------------------
\* Program constants
WrapLimit == 9990

FILE_PREFIX == <<"m", "s", "g">>
TEXT_SUFFIX == <<".", "t", "x", "t">>
HTML_SUFFIX == <<".", "h", "t", "m", "l">>

MESG_FOLDER == "messages"
ATCH_FOLDER == "attachments"
OTHR_FOLDER == "other_msg"

\* ------------------------------------------------------------------------
\* Text helpers

\* str(n) for n >= 0: the decimal digits of n.
Digits == <<"0", "1", "2", "3", "4", "5", "6", "7", "8", "9">>

RECURSIVE Str(_)
Str(n) == IF n < 10 THEN <<Digits[n + 1]>>
          ELSE Str(n \div 10) \o <<Digits[(n % 10) + 1]>>

\* c.isalnum() on the characters the model uses.
Alnum == {"a", "b", "c", "d", "e", "f", "g", "h", "i", "j", "k", "l", "m",
          "n", "o", "p", "q", "r", "s", "t", "u", "v", "w", "x", "y", "z",
          "A", "B", "C", "D", "E", "F", "G", "H", "I", "J", "K", "L", "M",
          "N", "O", "P", "Q", "R", "S", "T", "U", "V", "W", "X", "Y", "Z",
          "0", "1", "2", "3", "4", "5", "6", "7", "8", "9"}

isalnum(c) == c \in Alnum

\* A plausible slip of clean(): the dot is not preserved.
RECURSIVE clean_NoDot(_)
clean_NoDot(text) ==
    IF text = <<>> THEN <<>>
    ELSE <<IF isalnum(Head(text)) THEN Head(text) ELSE "_">>
         \o clean_NoDot(Tail(text))

\* clean(text): "".join(c if c.isalnum() or c == "." else "_" for c in text)
RECURSIVE clean(_)
clean(text) ==
    IF text = <<>> THEN <<>>
    ELSE <<IF isalnum(Head(text)) \/ Head(text) = "." THEN Head(text) ELSE "_">>
         \o clean(Tail(text))

\* The name under which read_emails stores an attachment.
AttachmentName(mcount, filename) ==
    FILE_PREFIX \o Str(mcount) \o <<"_">> \o clean(filename)

\* The name of a body file (text or html) or of a quarantine file.
BodyName(mcount, suffix) == FILE_PREFIX \o Str(mcount) \o suffix

\* re.search("<(.+?)>", s) tried at start position p: the lazy group has
\* consumed s[p+1 .. q-1] (at least one character, none of them a newline)
\* and the closing bracket is tried at q.  0 when no match starts at p.
RECURSIVE MatchEnd(_, _)
MatchEnd(s, q) ==
    IF q > Len(s) THEN 0
    ELSE IF s[q - 1] = "\n" THEN 0
    ELSE IF s[q] = ">" THEN q
    ELSE MatchEnd(s, q + 1)

\* The leftmost match of the pattern at or after position p:
\* <<p, q>> with s[p] = "<" and s[q] = ">", or <<0, 0>> when there is none
\* (re.search returns None and .group raises AttributeError).
RECURSIVE ReSearch(_, _)
ReSearch(s, p) ==
    IF p > Len(s) THEN <<0, 0>>
    ELSE IF s[p] = "<" /\ MatchEnd(s, p + 2) # 0
         THEN <<p, MatchEnd(s, p + 2)>>
         ELSE ReSearch(s, p + 1)

\* str_found of check_mail_auth.
StrFound(from_adrs) ==
    LET m == ReSearch(from_adrs, 1)
    IN  IF m[1] = 0 THEN from_adrs
        ELSE SubSeq(from_adrs, m[1] + 1, m[2] - 1)

InList(x, list) == \E k \in 1..Len(list) : list[k] = x

\* A plausible slip of check_mail_auth: the bracket extraction is skipped
\* and the raw From string is compared.
check_mail_auth_Raw(from_adrs, mail_auth) == InList(from_adrs, mail_auth)

\* check_mail_auth(from_adrs), with the module global mail_auth made a
\* parameter.
check_mail_auth(from_adrs, mail_auth) == InList(StrFound(from_adrs), mail_auth)


\* ------------------------------------------------------------------------
\* Text helpers of the command interpreter (process_messages.py)

\* The characters of the model in code-point order; Ord(c) is the rank of
\* c, so that comparing ranks is comparing code points.
CharOrder ==
    <<"\t", " ", "\"", "'", "-", ".", "/",
      "0", "1", "2", "3", "4", "5", "6", "7", "8", "9",
      ":", "<", ">", "@",
      "A", "B", "C", "D", "E", "F", "G", "H", "I", "J", "K", "L", "M",
      "N", "O", "P", "Q", "R", "S", "T", "U", "V", "W", "X", "Y", "Z",
      "_",
      "a", "b", "c", "d", "e", "f", "g", "h", "i", "j", "k", "l", "m",
      "n", "o", "p", "q", "r", "s", "t", "u", "v", "w", "x", "y", "z",
      "|">>

Ord(c) == CHOOSE k \in 1..Len(CharOrder) : CharOrder[k] = c

UpperCase == <<"A", "B", "C", "D", "E", "F", "G", "H", "I", "J", "K", "L",
               "M", "N", "O", "P", "Q", "R", "S", "T", "U", "V", "W", "X",
               "Y", "Z">>

LowerCase == <<"a", "b", "c", "d", "e", "f", "g", "h", "i", "j", "k", "l",
               "m", "n", "o", "p", "q", "r", "s", "t", "u", "v", "w", "x",
               "y", "z">>

\* The characters str.strip() and str.split() take for white space.
Whitespace == {" ", "\t"}

MinOf(S) == CHOOSE x \in S : \A y \in S : x <= y

MaxOf(S) == CHOOSE x \in S : \A y \in S : x >= y

\* s.lower()
RECURSIVE lower(_)
lower(s) ==
    IF s = <<>> THEN <<>>
    ELSE LET c == Head(s)
             up == {k \in 1..26 : UpperCase[k] = c}
         IN  <<IF up = {} THEN c ELSE LowerCase[MinOf(up)]>> \o lower(Tail(s))

RECURSIVE lstrip(_)
lstrip(s) ==
    IF s # <<>> /\ Head(s) \in Whitespace THEN lstrip(Tail(s)) ELSE s

RECURSIVE rstrip(_)
rstrip(s) ==
    IF s # <<>> /\ s[Len(s)] \in Whitespace
    THEN rstrip(SubSeq(s, 1, Len(s) - 1))
    ELSE s

\* s.strip()
strip(s) == rstrip(lstrip(s))

\* s.split(): the maximal runs of characters that are not white space.
RECURSIVE split(_)
split(s) ==
    LET t == lstrip(s)
        ws == {k \in 1..Len(t) : t[k] \in Whitespace}
        n == IF ws = {} THEN Len(t) ELSE MinOf(ws) - 1
    IN  IF t = <<>> THEN <<>>
        ELSE <<SubSeq(t, 1, n)>> \o split(SubSeq(t, n + 1, Len(t)))

\* s.split(sep) for a separator of one character.
RECURSIVE split_on(_, _)
split_on(s, sep) ==
    LET at == {k \in 1..Len(s) : s[k] = sep}
    IN  IF at = {} THEN <<s>>
        ELSE <<SubSeq(s, 1, MinOf(at) - 1)>>
             \o split_on(SubSeq(s, MinOf(at) + 1, Len(s)), sep)

\* sep.join(list)
RECURSIVE join(_, _)
join(sep, list) ==
    IF list = <<>> THEN <<>>
    ELSE IF Len(list) = 1 THEN list[1]
    ELSE list[1] \o sep \o join(sep, Tail(list))

\* sub in s
contains(s, sub) ==
    \E k \in 0..(Len(s) - Len(sub)) : SubSeq(s, k + 1, k + Len(sub)) = sub

startswith(s, prefix) ==
    Len(prefix) <= Len(s) /\ SubSeq(s, 1, Len(prefix)) = prefix

endswith(s, suffix) ==
    /\ Len(suffix) <= Len(s)
    /\ SubSeq(s, Len(s) - Len(suffix) + 1, Len(s)) = suffix

\* a < b for two strings, as sorted() compares them.
RECURSIVE StrLess(_, _)
StrLess(a, b) ==
    IF b = <<>> THEN FALSE
    ELSE IF a = <<>> THEN TRUE
    ELSE IF Head(a) # Head(b) THEN Ord(Head(a)) < Ord(Head(b))
    ELSE StrLess(Tail(a), Tail(b))

\* sorted(S) for a set of strings.
RECURSIVE sorted(_)
sorted(S) ==
    IF S = {} THEN <<>>
    ELSE LET m == CHOOSE x \in S : \A y \in S \ {x} : StrLess(x, y)
         IN  <<m>> \o sorted(S \ {m})

\* get_filename_ext: os.path.splitext of the base name; the extension
\* starts at the last dot unless only dots precede it.
get_filename_ext(name) ==
    LET dots == {k \in 1..Len(name) : name[k] = "."}
        k == MaxOf(dots)
    IN  IF dots = {} \/ \A j \in 1..(k - 1) : name[j] = "."
        THEN <<name, <<>>>>
        ELSE <<SubSeq(name, 1, k - 1), SubSeq(name, k, Len(name))>>

\* csv.reader(lines, delimiter=' ', quotechar='"') on one line: the fields
\* of the record.  st is the state of the reader, field the field being
\* collected.  A quote opens a quoted field only at the start of a field;
\* inside a quoted field a doubled quote is one quote; at the end of the
\* line the field being collected is saved.
RECURSIVE csv_fields(_, _, _)
csv_fields(s, st, field) ==
    IF s = <<>>
    THEN IF st = "START_RECORD" THEN <<>> ELSE <<field>>
    ELSE LET c == Head(s)
             rest == Tail(s)
         IN  CASE st \in {"START_RECORD", "START_FIELD"} ->
                    IF c = "\"" THEN csv_fields(rest, "IN_QUOTED_FIELD", <<>>)
                    ELSE IF c = " "
                    THEN <<<<>>>> \o csv_fields(rest, "START_FIELD", <<>>)
                    ELSE csv_fields(rest, "IN_FIELD", <<c>>)
               [] st = "IN_FIELD" ->
                    IF c = " "
                    THEN <<field>> \o csv_fields(rest, "START_FIELD", <<>>)
                    ELSE csv_fields(rest, "IN_FIELD", Append(field, c))
               [] st = "IN_QUOTED_FIELD" ->
                    IF c = "\""
                    THEN csv_fields(rest, "QUOTE_IN_QUOTED_FIELD", field)
                    ELSE csv_fields(rest, "IN_QUOTED_FIELD", Append(field, c))
               [] st = "QUOTE_IN_QUOTED_FIELD" ->
                    IF c = "\""
                    THEN csv_fields(rest, "IN_QUOTED_FIELD", Append(field, c))
                    ELSE IF c = " "
                    THEN <<field>> \o csv_fields(rest, "START_FIELD", <<>>)
                    ELSE csv_fields(rest, "IN_FIELD", Append(field, c))

csv_reader(line) == csv_fields(line, "START_RECORD", <<>>)

\* The character classes of the pattern of update_email_auth.
\* [.-_] is the range of code points from "." to "_".
DotToUnderscore == {c \in {CharOrder[k] : k \in 1..Len(CharOrder)} :
                       Ord(".") <= Ord(c) /\ Ord(c) <= Ord("_")}

Letters == {UpperCase[k] : k \in 1..26} \cup {LowerCase[k] : k \in 1..26}

\* ([A-Za-z0-9]+[.-_])*[A-Za-z0-9]+ : runs of alphanumerics, one
\* character of the range between two runs.
LocalPart(w) ==
    /\ w # <<>>
    /\ isalnum(w[1])
    /\ isalnum(w[Len(w)])
    /\ \A k \in 1..Len(w) : isalnum(w[k]) \/ w[k] \in DotToUnderscore
    /\ \A k \in 1..(Len(w) - 1) : isalnum(w[k]) \/ isalnum(w[k + 1])

\* [A-Za-z0-9-]+(\.[A-Z|a-z]{2,})+
DomainPart(w) ==
    LET parts == split_on(w, ".")
    IN  /\ Len(parts) >= 2
        /\ parts[1] # <<>>
        /\ \A k \in 1..Len(parts[1]) :
              isalnum(parts[1][k]) \/ parts[1][k] = "-"
        /\ \A p \in 2..Len(parts) :
              /\ Len(parts[p]) >= 2
              /\ \A k \in 1..Len(parts[p]) :
                    parts[p][k] \in Letters \cup {"|"}

\* re.fullmatch(regex, email_adrs) of update_email_auth.
email_fullmatch(email_adrs) ==
    \E k \in 1..Len(email_adrs) :
        /\ email_adrs[k] = "@"
        /\ LocalPart(SubSeq(email_adrs, 1, k - 1))
        /\ DomainPart(SubSeq(email_adrs, k + 1, Len(email_adrs)))

\* ------------------------------------------------------------------------
\* State

VARIABLES
    pc,           \* position of the intake process in main()
    imap_open,    \* module flag: connection to the server is active
    imap,         \* state of the session held by the global imap object
    sentry,       \* inner-loop flag of main()
    count,        \* number of messages found by the last poll
    mail_auth,    \* authorised sender list read by initialise()
    inbox,        \* the INBOX on the server, in index order
    arrived,      \* number of messages delivered to the INBOX so far
    i,            \* loop index of read_emails
    remove_list,  \* remove_list of read_emails
    mcount,       \* mcount of read_emails
    mcount_old,   \* mcount_old of read_emails
    MESG_COUNT,   \* the persisted counter of the dotenv file
    set_key,      \* value written to MESG_COUNT by this cycle, 0 when none
    files,        \* the files of the three folders
    fetched,      \* indices whose fetch returned a message in this cycle
    wrote,        \* <<index, folder, name>> of the files written in this cycle
    marked,       \* indices flagged \Deleted by this cycle
    gone,         \* uids of the messages expunged from the server
    failed,       \* the failure waiting for a reconnect, "none" when none
    waits,        \* sleep() calls made since that failure
    fn_op,        \* pure-function harness: the function applied last
    fn_from,      \* its From string
    fn_auth,      \* its authorised sender list
    fn_ok         \* result of check_mail_auth

intakeVars == <<pc, imap_open, imap, sentry, count, mail_auth, inbox, arrived,
                i, remove_list, mcount, mcount_old, MESG_COUNT, set_key,
                files, fetched, wrote, marked, gone, failed, waits>>

fnVars == <<fn_op, fn_from, fn_auth, fn_ok>>

\* State of one run of the command interpreter (process_messages.py) and
\* of the files it reads and writes.
VARIABLES
    pm_pc,              \* position of the interpreter in main()
    mesg_dir,           \* names of the files of the messages folder
    atch_dir,           \* names of the files of the attachments folder
    run_next,           \* the file RUN_NEXT_FILE
    run_adm,            \* the file RUN_ADM_FILE
    dotenv_DEBUG,       \* DEBUG of the dotenv file
    dotenv_EMAIL_AUTH,  \* EMAIL_AUTH of the dotenv file
    pm_todo,            \* file names process_files has still to visit
    pm_fname,           \* fname of the file being processed
    pm_left,            \* lines of its text still to process
    pm_line,            \* the line process_data handled last
    pm_remove_list,     \* remove_list of process_files
    pm_logged,          \* LOG_ERR index logged by the last step, -1 if none
    pm_exit             \* exit code of the interpreter, -1 while running

pmVars == <<pm_pc, mesg_dir, atch_dir, run_next, run_adm, dotenv_DEBUG,
            dotenv_EMAIL_AUTH, pm_todo, pm_fname, pm_left, pm_line,
            pm_remove_list, pm_logged, pm_exit>>

\* The outbound queue manager (send_email.py).
VARIABLES
    se_pc,        \* position of the sender in main()
    se_argv,      \* sys.argv[1:], the message files given
    se_k,         \* index of the argument the for loop of main is at
    se_where,     \* for each message file, the folders that hold it
    se_probe,     \* outcome of the urlopen probe of open_smtp_server
    se_smtp,      \* state of the session held by the global smtplink
    se_opened,    \* number of smtplib.SMTP objects created
    se_parsed,    \* files given to email.message_from_file
    se_sendmail,  \* calls of smtplink.sendmail: file, attachment, raised
    se_moves,     \* calls of shutil.move: file, destination, succeeded
    se_done,      \* per argument handled, how send_the_message returned
    se_outcome,   \* outcome of main
    se_exit       \* exit code of the process, -1 while it runs

seVars == <<se_pc, se_argv, se_k, se_where, se_probe, se_smtp, se_opened,
            se_parsed, se_sendmail, se_moves, se_done, se_outcome, se_exit>>

\* The save task of the system administrator (sysadmin_save_now.py).
VARIABLES
    sv_pc,     \* position of the save task in main()
    sv_argv,   \* sys.argv[1:]
    sv_now,    \* the running_now file
    sv_atch,   \* names of the files of the attachments folder
    sv_disk,   \* files the task has put on the disk: path and content
    sv_moved,  \* how the shutil.move of the attachment ended
    sv_exit    \* exit code of the process, -1 while it runs

svVars == <<sv_pc, sv_argv, sv_now, sv_atch, sv_disk, sv_moved, sv_exit>>

\* The variables no intake step touches.
otherVars == <<fnVars, pmVars, seVars, svVars>>

vars == <<intakeVars, otherVars>>

\* ------------------------------------------------------------------------
\* Messages on the server

\* EMAIL_AUTH of the dotenv file, as split by initialise().
EMAIL_AUTH == << <<"a", "@", "b", ".", "c", "o">> >>

\* From headers: the authorised address, and one differing in letter case.
AuthFrom == <<"B", " ", "<", "a", "@", "b", ".", "c", "o", ">">>
UnauthFrom == <<"B", " ", "<", "A", "@", "b", ".", "c", "o", ">">>

\* An EMAIL_AUTH value that update_email_auth persists: a list naming
\* the second sender and not the first.
NEW_EMAIL_AUTH ==
    <<"b", "@", "c", ".", "d", "e", ",", "A", "@", "b", ".", "c", "o">>

\* A plausible slip: the list is read from the dotenv file at each check.
AuthList_Reread == split_on(dotenv_EMAIL_AUTH, ",")

\* The module global mail_auth that check_mail_auth reads.
AuthList == mail_auth
Senders == {AuthFrom, UnauthFrom}

NoName == <<>>
AtchFile == <<"M", "y", " ", "R", "e", "p", "o", "r", "t", " ", "(", "v", "2",
              ")", ".", "p", "p", "t", "x">>

Part(ctype, disp, filename) ==
    [ctype |-> ctype, disp |-> disp, filename |-> filename]

\* The MIME shapes a message can have.  parts lists the sub-parts of a
\* multipart message; walk() also yields the container itself.
PlainMsg == [multipart |-> FALSE, ctype |-> "text/plain", parts |-> <<>>]
HtmlMsg  == [multipart |-> FALSE, ctype |-> "text/html", parts |-> <<>>]
AltMsg   == [multipart |-> TRUE, ctype |-> "multipart/alternative",
             parts |-> <<Part("text/plain", "None", NoName),
                         Part("text/html", "None", NoName)>>]
AtchMsg  == [multipart |-> TRUE, ctype |-> "multipart/mixed",
             parts |-> <<Part("text/plain", "None", NoName),
                         Part("application/x", "attachment", AtchFile)>>]
BareMsg  == [multipart |-> TRUE, ctype |-> "multipart/mixed",
             parts |-> <<Part("application/x", "attachment", NoName)>>]
Shapes == {PlainMsg, HtmlMsg, AltMsg, AtchMsg, BareMsg}

walk(emsg) == <<Part(emsg.ctype, "None", NoName)>> \o emsg.parts

\* ------------------------------------------------------------------------
\* Local files

File(folder, name, owner, id, orig, content) ==
    [folder |-> folder, name |-> name, owner |-> owner, id |-> id,
     orig |-> orig, content |-> content]

\* open(path, "w") replaces a file of the same name.
WriteFile(fs, f) ==
    {g \in fs : ~(g.folder = f.folder /\ g.name = f.name)} \cup {f}

\* The files one part of an authorised multipart message produces
\* (the if / elif chain over content type and disposition).
PartFiles(part, uid, mc) ==
    IF part.ctype = "text/plain" /\ part.disp # "attachment"
    THEN {File(MESG_FOLDER, BodyName(mc, TEXT_SUFFIX), uid, mc, NoName, "body")}
    ELSE IF part.ctype = "text/html" /\ part.disp # "attachment"
    THEN {File(MESG_FOLDER, BodyName(mc, HTML_SUFFIX), uid, mc, NoName, "body")}
    ELSE IF part.disp = "attachment"
    THEN IF part.filename # NoName
         THEN {File(ATCH_FOLDER, AttachmentName(mc, part.filename), uid, mc,
                    part.filename, "payload")}
         ELSE {}
    ELSE {}

RECURSIVE PartsFiles(_, _, _)
PartsFiles(parts, uid, mc) ==
    IF parts = <<>> THEN {}
    ELSE PartFiles(Head(parts), uid, mc) \cup PartsFiles(Tail(parts), uid, mc)

\* A plausible slip: an unauthorised message is materialised like any other.
MessageFiles_NoQuarantine(msg, auth, mc) ==
    IF msg.shape.multipart
    THEN PartsFiles(walk(msg.shape), msg.uid, mc)
    ELSE IF msg.shape.ctype = "text/plain"
         THEN {File(MESG_FOLDER, BodyName(mc, TEXT_SUFFIX), msg.uid, mc,
                    NoName, "body")}
         ELSE {}

\* The files read_emails writes for one fetched message at counter mc.
MessageFiles(msg, auth, mc) ==
    IF ~check_mail_auth(msg.from, auth)
    THEN {File(OTHR_FOLDER, BodyName(mc, TEXT_SUFFIX), msg.uid, mc, NoName,
               "full")}
    ELSE IF msg.shape.multipart
         THEN PartsFiles(walk(msg.shape), msg.uid, mc)
         ELSE IF msg.shape.ctype = "text/plain"
              THEN {File(MESG_FOLDER, BodyName(mc, TEXT_SUFFIX), msg.uid, mc,
                         NoName, "body")}
              ELSE {}

RECURSIVE WriteAll(_, _)
WriteAll(fs, new) ==
    IF new = {} THEN fs
    ELSE LET f == CHOOSE g \in new : TRUE
         IN  WriteAll(WriteFile(fs, f), new \ {f})

\* ------------------------------------------------------------------------
\* Server side

\* EXPUNGE: every message flagged \Deleted leaves the mailbox.
RECURSIVE Expunged(_)
Expunged(box) ==
    IF box = <<>> THEN <<>>
    ELSE IF Head(box).deleted THEN Expunged(Tail(box))
         ELSE <<Head(box)>> \o Expunged(Tail(box))

DeletedUids(box) == {box[k].uid : k \in {n \in 1..Len(box) : box[n].deleted}}

\* A plausible slip: the flag is stored on the whole mailbox ('1:*').
Flagged_All(box, ids) ==
    [k \in 1..Len(box) |-> [box[k] EXCEPT !.deleted = TRUE]]

\* +FLAGS \Deleted on the messages whose index is in ids.
Flagged(box, ids) ==
    [k \in 1..Len(box) |->
        IF k \in ids THEN [box[k] EXCEPT !.deleted = TRUE] ELSE box[k]]

\* The message number a server reads from the digits of a STORE argument.
RECURSIVE Num(_)
Num(s) ==
    IF s = <<>> THEN 0
    ELSE 10 * Num(SubSeq(s, 1, Len(s) - 1))
         + (CHOOSE d \in 0..9 : Digits[d + 1] = s[Len(s)])

\* The message numbers of the first n entries of a removal list.
ListPrefix(list, n) == {Num(list[k]) : k \in 1..n}


\* ------------------------------------------------------------------------
\* Initial state: the process has run initialise() and is about to open
\* the session; the folders are empty.

\* Values of MESG_COUNT found in the dotenv file at the first start.
InitCounts == {7, WrapLimit - 1}

IntakeInit ==
    /\ pc = "connect"
    /\ imap_open = FALSE
    /\ imap = "none"
    /\ sentry = TRUE
    /\ count = 0
    /\ mail_auth = EMAIL_AUTH
    /\ inbox = <<>>
    /\ arrived = 0
    /\ i = 0
    /\ remove_list = <<>>
    /\ mcount = 0
    /\ mcount_old = 0
    /\ MESG_COUNT \in InitCounts
    /\ set_key = 0
    /\ files = {}
    /\ fetched = {}
    /\ wrote = {}
    /\ marked = {}
    /\ gone = {}
    /\ failed = "none"
    /\ waits = 0

\* ------------------------------------------------------------------------
\* Command interpreter: constants, files and initial state

\* Bound: lines of one message text.
MaxLines == 2

PPOINT_SUFFIX == <<".", "p", "p", "s", "x">>
IMPRES_SUFFIX == <<".", "o", "d", "p">>

CMND_GOOGLE == <<"g", "o", "o", "g", "l", "e">>
CMND_POWERP == <<"p", "o", "w", "e", "r", "p", "o", "i", "n", "t">>
CMND_IMPRESS == <<"i", "m", "p", "r", "e", "s", "s">>
CMND_HALT == <<"h", "a", "l", "t">>
CMND_STOP == <<"s", "t", "o", "p">>
CMND_START == <<"s", "t", "a", "r", "t">>
CMND_RSTART == <<"r", "e", "s", "t", "a", "r", "t">>
CMND_RUN == <<"r", "u", "n">>
CMND_DEBUG == <<"d", "e", "b", "u", "g">>
CMND_AUTH1 == <<"e", "m", "a", "i", "l", "_", "a", "u", "t", "h">>
CMND_AUTH2 == <<"e", "m", "a", "i", "l", "a", "u", "t", "h">>

SYSADM_CMDS ==
    {<<"l", "i", "s", "t">>, <<"u", "p", "d", "a", "t", "e">>, <<"r", "e", "b", "o", "o", "t">>, <<"s", "c", "r", "e", "e", "n">>, <<"s", "a", "v", "e", "_", "n", "o", "w">>,
     <<"c", "r", "o", "n", "t", "a", "b">>, <<"s", "h", "u", "t", "d", "o", "w", "n">>, <<"d", "o", "w", "n", "l", "o", "a", "d">>, <<"d", "e", "l", "e", "t", "e">>}

\* A file that does not exist, and a text file with the given lines.
NoFile == [exists |-> FALSE, lines |-> <<>>]

TextFile(lines) == [exists |-> TRUE, lines |-> lines]

\* write_next_file(parm_cmnd, parm_data): the file it leaves.
write_next_file(parm_cmnd, parm_data) ==
    TextFile(<<<<"e", "x", "p", "o", "r", "t", " ", "R", "U", "N", "_", "C", "M", "N", "D", "=", "'">> \o parm_cmnd \o <<"'">>,
               <<"e", "x", "p", "o", "r", "t", " ", "R", "U", "N", "_", "D", "A", "T", "A", "=", "'">> \o parm_data \o <<"'">>>>)

\* A plausible slip: the admin-file is opened for appending.
write_adm_file_Append(parm_cmnd, parm_data, parm_atch) ==
    TextFile(run_adm.lines \o
             <<<<"e", "x", "p", "o", "r", "t", " ", "R", "U", "N", "_", "C", "M", "N", "D", "=", "'">> \o parm_cmnd \o <<"'">>,
               <<"e", "x", "p", "o", "r", "t", " ", "R", "U", "N", "_", "D", "A", "T", "A", "=", "'">> \o parm_data \o <<"'">>,
               <<"e", "x", "p", "o", "r", "t", " ", "R", "U", "N", "_", "A", "T", "C", "H", "=", "'">> \o parm_atch \o <<"'">>>>)

\* write_adm_file(parm_cmnd, parm_data, parm_atch): the file it leaves.
write_adm_file(parm_cmnd, parm_data, parm_atch) ==
    TextFile(<<<<"e", "x", "p", "o", "r", "t", " ", "R", "U", "N", "_", "C", "M", "N", "D", "=", "'">> \o parm_cmnd \o <<"'">>,
               <<"e", "x", "p", "o", "r", "t", " ", "R", "U", "N", "_", "D", "A", "T", "A", "=", "'">> \o parm_data \o <<"'">>,
               <<"e", "x", "p", "o", "r", "t", " ", "R", "U", "N", "_", "A", "T", "C", "H", "=", "'">> \o parm_atch \o <<"'">>>>)

\* No LOG_ERR message.
NoLog == -1

\* The saved presentation of the permanent folder and the running_now
\* file, both written by an earlier run.
PermNames == {<<"d", "e", "c", "k">>}

PermText == write_next_file(CMND_GOOGLE, <<"d", "o", "c", "s", ".", "g", "o", "o", "g", "l", "e", ".", "c", "o", "m", "/", "d">>)

RunNowText == write_next_file(CMND_POWERP, <<"m", "s", "g", "3", "_", "x", ".", "o", "d", "p">>)

\* The folder and file names the interpreter uses, all relative to the
\* work folder.
PERM_FOLDER == <<"p", "e", "r", "m", "a", "n", "e", "n", "t">>

RUN_NEXT_FILE == <<"r", "u", "n", "n", "i", "n", "g", "_", "n", "e", "x", "t">>

RUN_NOW_FILE == <<"r", "u", "n", "n", "i", "n", "g", "_", "n", "o", "w">>

RUN_ADM_FILE == <<"m", "a", "n", "a", "g", "e", "_", "n", "e", "x", "t">>

\* os.path.join(a, b): b alone when it is absolute.
os_path_join(a, b) ==
    IF startswith(b, <<"/">>) THEN b ELSE a \o <<"/">> \o b

\* The components of a path with "", "." and ".." resolved, as the file
\* system resolves them when every folder on the way exists.
RECURSIVE resolve(_, _)
resolve(parts, stack) ==
    IF parts = <<>> THEN stack
    ELSE LET c == Head(parts)
         IN  IF c \in {<<>>, <<".">>}
             THEN resolve(Tail(parts), stack)
             ELSE IF c = <<".", ".">> /\ stack # <<>>
             THEN resolve(Tail(parts), SubSeq(stack, 1, Len(stack) - 1))
             ELSE resolve(Tail(parts), Append(stack, c))

\* The file a path names, NoFile when there is none: the permanent folder
\* holds the saved presentations, the work folder the running_now file and
\* the two trigger files.
FileAt(path) ==
    LET parts == resolve(split_on(path, "/"), <<>>)
    IN  IF startswith(path, <<"/">>) THEN NoFile
        ELSE IF Len(parts) = 2 /\ parts[1] = PERM_FOLDER
                /\ parts[2] \in PermNames
        THEN PermText
        ELSE IF parts = <<RUN_NOW_FILE>> THEN RunNowText
        ELSE IF parts = <<RUN_NEXT_FILE>> THEN run_next
        ELSE IF parts = <<RUN_ADM_FILE>> THEN run_adm
        ELSE NoFile

\* os.path.isfile(path).
isfile(path) == FileAt(path).exists

\* How a shutil.copy onto the next-file may end: the file is copied; the
\* copy is refused before the next-file is touched (the source cannot be
\* read, the next-file cannot be opened, both are the same file); or it
\* fails after the next-file was opened for writing, which empties it.
CopyOutcomes == {"copied", "refused", "truncated"}

\* The folders the interpreter may find: the messages folder holds files
\* as intake writes them (and, in one case, a file of another extension),
\* the attachments folder attachments of message 7 and of message 70.
Folders ==
    { [mesg |-> {}, atch |-> {}],
      [mesg |-> {BodyName(7, TEXT_SUFFIX)}, atch |-> {}],
      [mesg |-> {BodyName(7, TEXT_SUFFIX)},
       atch |-> {AttachmentName(7, <<"a", ".", "o", "d", "p">>), AttachmentName(7, <<"b", ".", "p", "p", "s", "x">>)}],
      [mesg |-> {BodyName(7, TEXT_SUFFIX)},
       atch |-> {AttachmentName(70, <<"c", ".", "o", "d", "p">>), AttachmentName(7, <<"d", ".", "p", "d", "f">>)}],
      [mesg |-> {BodyName(7, HTML_SUFFIX)},
       atch |-> {AttachmentName(7, <<"a", ".", "o", "d", "p">>)}],
      [mesg |-> {BodyName(7, TEXT_SUFFIX), BodyName(7, HTML_SUFFIX)},
       atch |-> {}],
      [mesg |-> {BodyName(7, TEXT_SUFFIX), BodyName(70, TEXT_SUFFIX)},
       atch |-> {AttachmentName(70, <<"c", ".", "o", "d", "p">>)}],
      [mesg |-> {BodyName(7, <<".", "d", "a", "t">>)}, atch |-> {}] }

\* The lines a message text is made of.
LineCatalog ==
    { <<>>,
      <<"s", "t", "o", "p">>,
      <<" ", "H", "A", "L", "T", " ", "n", "o", "w", " ">>,
      <<"G", "o", "o", "g", "l", "e", " ", "D", "O", "C", "S", ".", "G", "O", "O", "G", "L", "E", ".", "C", "O", "M", "/", "p", " ", "x">>,
      <<"g", "o", "o", "g", "l", "e", " ", "e", "x", "a", "m", "p", "l", "e", ".", "c", "o", "m", "/", "p">>,
      <<"p", "o", "w", "e", "r", "p", "o", "i", "n", "t">>,
      <<"I", "m", "p", "r", "e", "s", "s", " ", "x">>,
      <<"e", "m", "a", "i", "l", "a", "u", "t", "h", " ", "b", "@", "c", ".", "d", "e", " ", "A", "@", "b", ".", "c", "o">>,
      <<"e", "m", "a", "i", "l", "_", "a", "u", "t", "h", " ", "b", "@", "c", ".", "d", "e", ",", " ", "a", "@", "b", ".", "c", "o">>,
      <<"e", "m", "a", "i", "l", "_", "a", "u", "t", "h">>,
      <<"E", "M", "A", "I", "L", "_", "A", "U", "T", "H", " ", "b", "@", "c", ".", "d", "e">>,
      <<"d", "e", "b", "u", "g", " ", "O", "N">>,
      <<"d", "e", "b", "u", "g">>,
      <<"r", "u", "n", " ", "d", "e", "c", "k">>,
      <<"r", "u", "n">>,
      <<"r", "u", "n", " ", "x">>,
      <<"r", "u", "n", " ", ".", ".", "/", "r", "u", "n", "n", "i", "n", "g", "_", "n", "o", "w">>,
      <<"r", "e", "s", "t", "a", "r", "t">>,
      <<"r", "e", "b", "o", "o", "t">>,
      <<"d", "e", "l", "e", "t", "e", " ", "\"", "a", " ", "b", "\"", " ", "c">>,
      <<"d", "o", "w", "n", "l", "o", "a", "d", " ", "a", " ", " ", "b">>,
      <<"l", "i", "s", "t", "\t", "u", "s", "b">>,
      <<"h", "e", "l", "l", "o">> }

\* The interpreter is not running (the intake model runs it as one step).
PmIdle ==
    /\ pm_pc = "idle"
    /\ mesg_dir = {}
    /\ atch_dir = {}
    /\ run_next = NoFile
    /\ run_adm = NoFile
    /\ dotenv_DEBUG = <<"F", "a", "l", "s", "e">>
    /\ dotenv_EMAIL_AUTH = join(<<",">>, EMAIL_AUTH)
    /\ pm_todo = <<>>
    /\ pm_fname = <<>>
    /\ pm_left = 0
    /\ pm_line = <<>>
    /\ pm_remove_list = <<>>
    /\ pm_logged = NoLog
    /\ pm_exit = -1

\* The interpreter has been started on some folders; the next-file is
\* missing or left by an earlier run.
PmInitIn(folders) ==
    /\ pm_pc = "start"
    /\ \E f \in folders : mesg_dir = f.mesg /\ atch_dir = f.atch
    /\ run_next \in {NoFile, RunNowText}
    /\ run_adm = NoFile
    /\ dotenv_DEBUG = <<"F", "a", "l", "s", "e">>
    /\ dotenv_EMAIL_AUTH = join(<<",">>, EMAIL_AUTH)
    /\ pm_todo = <<>>
    /\ pm_fname = <<>>
    /\ pm_left = 0
    /\ pm_line = <<>>
    /\ pm_remove_list = <<>>
    /\ pm_logged = NoLog
    /\ pm_exit = -1

PmInit == PmInitIn(Folders)

\* A batch of three files of two messages: message 10 as text and the
\* older message 7 as html and as text; and one of two text messages.
BatchFolders ==
    { [mesg |-> {BodyName(10, TEXT_SUFFIX), BodyName(7, HTML_SUFFIX),
                 BodyName(7, TEXT_SUFFIX)},
       atch |-> {}],
      [mesg |-> {BodyName(7, TEXT_SUFFIX), BodyName(10, TEXT_SUFFIX)},
       atch |-> {}] }

\* ------------------------------------------------------------------------
\* Outbound queue manager: constants, files and initial state

\* Bound: message files given to one run of the sender.
MaxArgs == 2

UNQUEUE_DIR == "unqueue"
QUEUE_DIR == "queue"

\* A folder outside the three of the sender, from which a new message is
\* handed over.
OutboxDir == "outbox"

\* mail_data.get(name): None when the header is missing.
None == [present |-> FALSE, value |-> <<>>]

Header(v) == [present |-> TRUE, value |-> v]

\* The files an Attachment header may name that exist.
AttachFiles == {<<"r", "e", "p", "o", "r", "t", ".", "p", "d", "f">>}

\* The message files, as email.message_from_file parses them (headers and
\* payload), each in the folder of the path it is given by.
OutFiles ==
    { [name |-> "m1", dir |-> QUEUE_DIR, To |-> Header(<<"a", "@", "b", ".", "c", "o">>),
       Subject |-> Header(<<"h", "i">>), Attachment |-> None,
       Payload |-> <<"s", "t", "o", "p", " ", "n", "o", "w", "\n">>],
      [name |-> "m2", dir |-> OutboxDir, To |-> Header(<<"B", "o", "b", " ", "<", "b", "@", "c", ".", "d", "e", ">">>),
       Subject |-> Header(<<"s">>), Attachment |-> Header(<<"r", "e", "p", "o", "r", "t", ".", "p", "d", "f">>),
       Payload |-> <<"s", "e", "e", " ", "f", "i", "l", "e", "\n">>],
      [name |-> "m3", dir |-> QUEUE_DIR, To |-> Header(<<"a", ".", "b", "@", "c", ".", "d", "e">>),
       Subject |-> Header(<<"s">>), Attachment |-> Header(<<"g", "o", "n", "e", ".", "p", "d", "f">>),
       Payload |-> <<"s", "e", "e", " ", "f", "i", "l", "e", "\n">>],
      [name |-> "m4", dir |-> QUEUE_DIR, To |-> None,
       Subject |-> Header(<<"s">>), Attachment |-> None,
       Payload |-> <<"s", "e", "e", " ", "f", "i", "l", "e", "\n">>],
      [name |-> "m5", dir |-> OutboxDir, To |-> Header(<<"x">>),
       Subject |-> Header(<<"s">>), Attachment |-> None,
       Payload |-> <<"s", "e", "e", " ", "f", "i", "l", "e", "\n">>],
      [name |-> "m6", dir |-> QUEUE_DIR, To |-> Header(<<"<", "b", "@", "c", ">">>),
       Subject |-> Header(<<"s">>), Attachment |-> None,
       Payload |-> <<"s", "e", "e", " ", "f", "i", "l", "e", "\n">>],
      [name |-> "m7", dir |-> QUEUE_DIR, To |-> Header(<<"a", "@", "b", ".", "c", "o">>),
       Subject |-> None, Attachment |-> None,
       Payload |-> <<"s", "e", "e", " ", "f", "i", "l", "e", "\n">>],
      [name |-> "m8", dir |-> QUEUE_DIR, To |-> Header(<<"a", "@", "b", ".", "c", "o">>),
       Subject |-> Header(<<>>), Attachment |-> Header(<<>>),
       Payload |-> <<"s", "e", "e", " ", "f", "i", "l", "e", "\n">>] }

OutNames == {f.name : f \in OutFiles}

FileOf(name) == CHOOSE f \in OutFiles : f.name = name

\* The argument lists of at most n files.
RECURSIVE ArgLists(_)
ArgLists(n) ==
    IF n = 0 THEN {<<>>}
    ELSE ArgLists(n - 1) \cup
         {Append(a, x) : a \in {b \in ArgLists(n - 1) : Len(b) = n - 1},
                         x \in OutNames}

\* The sender is not running.
SeIdle ==
    /\ se_pc = "idle"
    /\ se_argv = <<>>
    /\ se_k = 1
    /\ se_where = [n \in OutNames |-> {FileOf(n).dir}]
    /\ se_probe = "none"
    /\ se_smtp = "none"
    /\ se_opened = 0
    /\ se_parsed = {}
    /\ se_sendmail = <<>>
    /\ se_moves = <<>>
    /\ se_done = <<>>
    /\ se_outcome = 0
    /\ se_exit = -1

\* The sender has been started with some message files as arguments.
SeInit ==
    /\ se_pc = "start"
    /\ se_argv \in ArgLists(MaxArgs)
    /\ se_k = 1
    /\ se_where = [n \in OutNames |-> {FileOf(n).dir}]
    /\ se_probe = "none"
    /\ se_smtp = "none"
    /\ se_opened = 0
    /\ se_parsed = {}
    /\ se_sendmail = <<>>
    /\ se_moves = <<>>
    /\ se_done = <<>>
    /\ se_outcome = 0
    /\ se_exit = -1

FnInit ==
    /\ fn_op = "none"
    /\ fn_from = <<>>
    /\ fn_auth = <<>>
    /\ fn_ok = FALSE

\* The arguments the save task may be started with: none, a file name,
\* and a name that leaves the permanent folder.
SaveArgs == {<<>>, <<<<"k", "e", "e", "p">>>>, <<<<".", ".", "/", "k", "e", "e", "p">>>>}

\* The running_now file the task may find: none, an empty file, the file
\* of a stop command, the file of a presentation as write_pp_impress_data
\* writes it, the file of an impress command, and a presentation file cut
\* after its first line.
RunNowFiles ==
    {NoFile, TextFile(<<>>),
     write_next_file(CMND_STOP, <<>>),
     write_next_file(CMND_POWERP, AttachmentName(7, <<"b", ".", "p", "p", "s", "x">>)),
     write_next_file(CMND_IMPRESS, AttachmentName(7, <<"a", ".", "o", "d", "p">>)),
     TextFile(<<write_next_file(CMND_POWERP, <<>>).lines[1]>>)}

\* The attachments folder: empty, or holding both presentations.
SaveAtchDirs ==
    {{}, {AttachmentName(7, <<"a", ".", "o", "d", "p">>), AttachmentName(7, <<"b", ".", "p", "p", "s", "x">>)}}

\* The content of an attachment file.
AtchData == TextFile(<<<<"P", "K">>>>)

\* The save task is not running.
SvIdle ==
    /\ sv_pc = "idle"
    /\ sv_argv = <<>>
    /\ sv_now = NoFile
    /\ sv_atch = {}
    /\ sv_disk = {}
    /\ sv_moved = "none"
    /\ sv_exit = -1

\* The save task has been started.
SvInit ==
    /\ sv_pc = "start"
    /\ sv_argv \in SaveArgs
    /\ sv_now \in RunNowFiles
    /\ sv_atch \in SaveAtchDirs
    /\ sv_disk = {}
    /\ sv_moved = "none"
    /\ sv_exit = -1

Init == IntakeInit /\ FnInit /\ PmIdle /\ SeIdle /\ SvIdle

\* ------------------------------------------------------------------------
\* The mail server receives a message.

Arrive ==
    /\ arrived < MaxUid
    /\ Len(inbox) < MaxInbox
    /\ \E from \in Senders, shape \in Shapes :
          inbox' = Append(inbox, [uid |-> arrived + 1, from |-> from,
                                  shape |-> shape, deleted |-> FALSE])
    /\ arrived' = arrived + 1
    /\ UNCHANGED <<pc, imap_open, imap, sentry, count, mail_auth, i,
                   remove_list, mcount, mcount_old, MESG_COUNT, set_key,
                   files, fetched, wrote, marked, gone, failed, waits>>
    /\ UNCHANGED otherVars

\* ------------------------------------------------------------------------
\* close_email_link(): close and logout, errors ignored; the flag is
\* cleared.  When the CLOSE command reaches a selected mailbox (reached),
\* the server expunges the messages flagged \Deleted.
close_email_link(reached) ==
    /\ imap_open' = FALSE
    /\ imap' = "none"
    /\ inbox' = IF reached /\ imap = "selected" THEN Expunged(inbox) ELSE inbox
    /\ gone' = IF reached /\ imap = "selected"
               THEN gone \cup DeletedUids(inbox) ELSE gone

\* ------------------------------------------------------------------------
\* open_email_inbox(), one action per network call, as called at the top
\* of the outer loop of main().

\* A plausible slip: a failed open ends the process.
OpenFailed_Fatal ==
    /\ imap_open' = FALSE
    /\ sentry' = FALSE
    /\ failed' = "open"
    /\ waits' = 0
    /\ pc' = "exited"

\* What main() does when open_email_inbox() returned False.
OpenFailed ==
    /\ imap_open' = FALSE
    /\ sentry' = FALSE
    /\ failed' = "open"
    /\ waits' = 0
    /\ pc' = "sleep_outer"

OpenConnect ==
    /\ pc = "connect"
    /\ \E ok \in BOOLEAN :
          IF ok
          THEN /\ imap' = "connected"
               /\ sentry' = TRUE
               /\ failed' = "none"
               /\ waits' = 0
               /\ pc' = "login"
               /\ UNCHANGED imap_open
          ELSE /\ OpenFailed
               /\ UNCHANGED imap
    /\ UNCHANGED <<count, mail_auth, inbox, arrived, i, remove_list, mcount,
                   mcount_old, MESG_COUNT, set_key, files, fetched, wrote,
                   marked, gone>>
    /\ UNCHANGED otherVars

OpenLogin ==
    /\ pc = "login"
    /\ \E ok \in BOOLEAN :
          IF ok
          THEN /\ imap' = "authed"
               /\ pc' = "select_inbox"
               /\ UNCHANGED <<imap_open, sentry, failed, waits>>
          ELSE /\ OpenFailed
               /\ UNCHANGED imap
    /\ UNCHANGED <<count, mail_auth, inbox, arrived, i, remove_list, mcount,
                   mcount_old, MESG_COUNT, set_key, files, fetched, wrote,
                   marked, gone>>
    /\ UNCHANGED otherVars

OpenSelect ==
    /\ pc = "select_inbox"
    /\ \E ok \in BOOLEAN :
          IF ok
          THEN /\ imap' = "selected"
               /\ imap_open' = TRUE
               /\ pc' = "select"
               /\ UNCHANGED <<sentry, failed, waits>>
          ELSE /\ OpenFailed
               /\ UNCHANGED imap
    /\ UNCHANGED <<count, mail_auth, inbox, arrived, i, remove_list, mcount,
                   mcount_old, MESG_COUNT, set_key, files, fetched, wrote,
                   marked, gone>>
    /\ UNCHANGED otherVars

\* ------------------------------------------------------------------------
\* The inner loop of main()

\* Top of the inner loop: count = 0 and imap.select().
Select ==
    /\ pc = "select"
    /\ count' = 0
    /\ \E ok \in BOOLEAN :
          IF ok
          THEN /\ pc' = "search"
               /\ UNCHANGED <<imap_open, imap, inbox, gone, sentry, failed,
                              waits>>
          ELSE /\ \E reached \in BOOLEAN : close_email_link(reached)
               /\ sentry' = FALSE
               /\ failed' = "select"
               /\ waits' = 0
               /\ pc' = "sleep_outer"
    /\ UNCHANGED <<mail_auth, arrived, i, remove_list, mcount, mcount_old,
                   MESG_COUNT, set_key, files, fetched, wrote, marked>>
    /\ UNCHANGED otherVars

\* A plausible slip: only an exception of the search counts as a failure,
\* a non-OK return code is taken for an empty mailbox.
SearchOK_ExceptionOnly(return_code) == return_code # "None"

\* The test 'return_code == OK' of main(); return_code is None when the
\* search raised.
SearchOK(return_code) == return_code = "OK"

\* imap.search(None, 'ALL') and the handling of its outcome, up to the
\* call of read_emails or the sleep.
Search ==
    /\ pc = "search"
    /\ \E return_code \in {"OK", "NO", "None"} :
          /\ IF SearchOK(return_code)
             THEN /\ count' = IF return_code = "OK" THEN Len(inbox) ELSE 0
                  /\ UNCHANGED <<imap_open, imap, inbox, gone, sentry>>
             ELSE /\ \E reached \in BOOLEAN : close_email_link(reached)
                  /\ sentry' = FALSE
                  /\ UNCHANGED count
          /\ failed' = IF return_code = "OK" THEN "none" ELSE "search"
          /\ waits' = 0
          /\ pc' = IF count' > 0 THEN "read" ELSE "sleep_inner"
    /\ UNCHANGED <<mail_auth, arrived, i, remove_list, mcount, mcount_old,
                   MESG_COUNT, set_key, files, fetched, wrote, marked>>
    /\ UNCHANGED otherVars


\* ------------------------------------------------------------------------
\* read_emails(count)

\* Start of read_emails: the counter is read from the dotenv file.
ReadBegin ==
    /\ pc = "read"
    /\ remove_list' = <<>>
    /\ mcount' = MESG_COUNT
    /\ mcount_old' = MESG_COUNT
    /\ i' = 1
    /\ set_key' = 0
    /\ fetched' = {}
    /\ wrote' = {}
    /\ marked' = {}
    /\ pc' = "fetch"
    /\ UNCHANGED <<imap_open, imap, sentry, count, mail_auth, inbox, arrived,
                   MESG_COUNT, files, gone, failed, waits>>
    /\ UNCHANGED otherVars

\* One pass of 'for i in range(1, messages + 1)': the fetch of message i,
\* the files written for it, and the bookkeeping at the end of the pass.
\*   res = "raise": fetch, parsing or a file write raised; nothing in main()
\*                  catches it and the process ends;
\*   res = "NO":    fetch returned without a message tuple (res is ignored);
\*   res = "OK":    the message was returned.
FetchMessage ==
    /\ pc = "fetch"
    /\ \E res \in {"OK", "NO", "raise"} :
          IF res = "raise"
          THEN /\ pc' = "crashed"
               /\ imap' = "none"
               /\ UNCHANGED <<i, remove_list, mcount, files, fetched, wrote>>
          ELSE /\ imap' = imap
               /\ i' = i + 1
               /\ IF res = "NO"
                  THEN /\ remove_list' = Append(remove_list, Str(i))
                       /\ mcount' = mcount + 1
                       /\ UNCHANGED <<files, fetched, wrote>>
                  ELSE LET msg == inbox[i]
                           unauth == ~check_mail_auth(msg.from, AuthList)
                           new == MessageFiles(msg, AuthList, mcount)
                       IN  /\ files' = WriteAll(files, new)
                           /\ wrote' = wrote \cup
                                  {<<i, f.folder, f.name>> : f \in new}
                           /\ fetched' = fetched \cup {i}
                           /\ remove_list' =
                                  IF unauth
                                  THEN remove_list \o <<Str(i), Str(i)>>
                                  ELSE Append(remove_list, Str(i))
                           /\ mcount' = IF unauth THEN mcount + 2
                                        ELSE mcount + 1
               /\ pc' = IF i < count THEN "fetch"
                        ELSE IF Len(remove_list') > 0 THEN "store"
                        ELSE "persist"
    /\ UNCHANGED <<imap_open, sentry, count, mail_auth, inbox, arrived,
                   mcount_old, MESG_COUNT, set_key, marked, gone, failed,
                   waits>>
    /\ UNCHANGED otherVars

\* delete_emails(remove_list), the loop of imap.store calls: n of them
\* succeed; when one raises (n < len) the process ends.
DeleteStore ==
    /\ pc = "store"
    /\ \E n \in 0..Len(remove_list) :
          /\ inbox' = Flagged(inbox, ListPrefix(remove_list, n))
          /\ marked' = ListPrefix(remove_list, n)
          /\ IF n = Len(remove_list)
             THEN pc' = "expunge" /\ UNCHANGED imap
             ELSE pc' = "crashed" /\ imap' = "none"
    /\ UNCHANGED <<imap_open, sentry, count, mail_auth, arrived, i,
                   remove_list, mcount, mcount_old, MESG_COUNT, set_key,
                   files, fetched, wrote, gone, failed, waits>>
    /\ UNCHANGED otherVars

\* delete_emails, imap.expunge().
DeleteExpunge ==
    /\ pc = "expunge"
    /\ \E ok \in BOOLEAN :
          IF ok
          THEN /\ inbox' = Expunged(inbox)
               /\ gone' = gone \cup DeletedUids(inbox)
               /\ pc' = "persist"
               /\ UNCHANGED imap
          ELSE /\ pc' = "crashed"
               /\ imap' = "none"
               /\ UNCHANGED <<inbox, gone>>
    /\ UNCHANGED <<imap_open, sentry, count, mail_auth, arrived, i,
                   remove_list, mcount, mcount_old, MESG_COUNT, set_key,
                   files, fetched, wrote, marked, failed, waits>>
    /\ UNCHANGED otherVars

\* A plausible slip: the counter is written without the wraparound.
Wrapped_NoWrap(mc) == mc

\* 'if mcount > 9990: mcount = 1'
Wrapped(mc) == IF mc > WrapLimit THEN 1 ELSE mc

\* End of read_emails: the counter is written back if it changed.
PersistCount ==
    /\ pc = "persist"
    /\ IF mcount_old # mcount
       THEN /\ mcount' = Wrapped(mcount)
            /\ MESG_COUNT' = Wrapped(mcount)
            /\ set_key' = Wrapped(mcount)
       ELSE UNCHANGED <<mcount, MESG_COUNT, set_key>>
    /\ pc' = "runner"
    /\ UNCHANGED <<imap_open, imap, sentry, count, mail_auth, inbox, arrived,
                   i, remove_list, mcount_old, files, fetched, wrote, marked,
                   gone, failed, waits>>
    /\ UNCHANGED otherVars

\* A plausible slip: a failed runner makes intake leave the inner loop.
AfterRunner_StopOnError(outcome) ==
    IF outcome = 0 THEN "sleep_inner" ELSE "sleep_outer"

\* Where main() continues after os.system returned outcome: the outcome
\* is logged when it is not 0 and the loop goes on to its sleep.
AfterRunner(outcome) == "sleep_inner"

\* os.system(PROCESS_SCRIPT): the interpreter batch removes the files of
\* the messages folder it has handled (outcome 0); a failed run (outcome 1)
\* is only logged.
RunProcessScript ==
    /\ pc = "runner"
    /\ \E outcome \in {0, 1} :
          /\ files' = IF outcome = 0
                      THEN {f \in files : f.folder # MESG_FOLDER}
                      ELSE files
          /\ pc' = AfterRunner(outcome)
    /\ \E auth \in {dotenv_EMAIL_AUTH, NEW_EMAIL_AUTH} :
          dotenv_EMAIL_AUTH' = auth
    /\ UNCHANGED <<imap_open, imap, sentry, count, mail_auth, inbox, arrived,
                   i, remove_list, mcount, mcount_old, MESG_COUNT, set_key,
                   fetched, wrote, marked, gone, failed, waits>>
    /\ UNCHANGED <<pm_pc, mesg_dir, atch_dir, run_next, run_adm, dotenv_DEBUG,
                   pm_todo, pm_fname, pm_left, pm_line, pm_remove_list,
                   pm_logged, pm_exit>>
    /\ UNCHANGED <<fnVars, seVars, svVars>>

\* sleep(EMAIL_TIMEOUT) at the end of the inner loop, then 'while sentry'.
SleepInner ==
    /\ pc = "sleep_inner"
    /\ waits' = IF failed # "none" THEN waits + 1 ELSE waits
    /\ pc' = IF sentry THEN "select" ELSE "sleep_outer"
    /\ UNCHANGED <<imap_open, imap, sentry, count, mail_auth, inbox, arrived,
                   i, remove_list, mcount, mcount_old, MESG_COUNT, set_key,
                   files, fetched, wrote, marked, gone, failed>>
    /\ UNCHANGED otherVars

\* sleep(EMAIL_TIMEOUT) at the end of the outer loop.
SleepOuter ==
    /\ pc = "sleep_outer"
    /\ waits' = IF failed # "none" THEN waits + 1 ELSE waits
    /\ pc' = "connect"
    /\ UNCHANGED <<imap_open, imap, sentry, count, mail_auth, inbox, arrived,
                   i, remove_list, mcount, mcount_old, MESG_COUNT, set_key,
                   files, fetched, wrote, marked, gone, failed>>
    /\ UNCHANGED otherVars

\* ------------------------------------------------------------------------
\* Stopping and starting the process

\* signal_term_handler: SIGINT at any point of the loop.  The session is
\* closed only when imap_open is set; otherwise the process exits with
\* whatever session the imap object holds (imap keeps its value).
Terminate ==
    /\ pc \notin {"exited", "crashed"}
    /\ IF imap_open
       THEN \E reached \in BOOLEAN : close_email_link(reached)
       ELSE UNCHANGED <<imap_open, imap, inbox, gone>>
    /\ pc' = "exited"
    /\ UNCHANGED <<sentry, count, mail_auth, arrived, i, remove_list, mcount,
                   mcount_old, MESG_COUNT, set_key, files, fetched, wrote,
                   marked, failed, waits>>
    /\ UNCHANGED otherVars

\* The program is started again (reboot or CRON): initialise() and the
\* top of main().
Restart ==
    /\ pc \in {"exited", "crashed"}
    /\ pc' = "connect"
    /\ imap_open' = FALSE
    /\ imap' = "none"
    /\ sentry' = TRUE
    /\ count' = 0
    /\ mail_auth' = split_on(dotenv_EMAIL_AUTH, ",")
    /\ i' = 0
    /\ remove_list' = <<>>
    /\ mcount' = 0
    /\ mcount_old' = 0
    /\ set_key' = 0
    /\ fetched' = {}
    /\ wrote' = {}
    /\ marked' = {}
    /\ failed' = "none"
    /\ waits' = 0
    /\ UNCHANGED <<inbox, arrived, MESG_COUNT, files, gone>>
    /\ UNCHANGED otherVars

Next ==
    \/ Arrive
    \/ OpenConnect
    \/ OpenLogin
    \/ OpenSelect
    \/ Select
    \/ Search
    \/ ReadBegin
    \/ FetchMessage
    \/ DeleteStore
    \/ DeleteExpunge
    \/ PersistCount
    \/ RunProcessScript
    \/ SleepInner
    \/ SleepOuter
    \/ Terminate
    \/ Restart

Spec == Init /\ [][Next]_vars

\* One run of the process, from initialise() to its end.
NextRun ==
    \/ Arrive
    \/ OpenConnect
    \/ OpenLogin
    \/ OpenSelect
    \/ Select
    \/ Search
    \/ ReadBegin
    \/ FetchMessage
    \/ DeleteStore
    \/ DeleteExpunge
    \/ PersistCount
    \/ RunProcessScript
    \/ SleepInner
    \/ SleepOuter
    \/ Terminate

SpecRun == Init /\ [][NextRun]_vars

\* One run of the intake loop with its scheduling: the sleep() at the end
\* of the outer loop returns.
SpecLive ==
    /\ SpecRun
    /\ WF_vars(SleepOuter)


\* ------------------------------------------------------------------------
\* check_mail_auth applied to From strings and sender lists drawn from
\* bounded sets.

FromAlphabet == {"a", "A", "<", ">", " ", "\n"}

FromExamples ==
    { <<"N", "a", "m", "e", " ", "<", "a", "@", "b", ".", "c", "o", "m", ">">>,
      <<"a", "@", "b", ".", "c", "o", "m">> }

FromInputs ==
    UNION {[1..n -> FromAlphabet] : n \in 0..MaxFromLen} \cup FromExamples

\* Sender lists as initialise() builds them: EMAIL_AUTH.split(",").
AuthInputs ==
    { << <<>> >>,
      << <<"a">> >>,
      << <<"A">>, <<"a", "A">> >>,
      << <<"a", "@", "b", ".", "c", "o", "m">> >> }

\* The inputs are drawn in the initial state ...
InitFn ==
    /\ IntakeInit
    /\ MESG_COUNT = 7
    /\ fn_op = "none"
    /\ fn_from \in FromInputs
    /\ fn_auth \in AuthInputs
    /\ fn_ok = FALSE
    /\ PmIdle
    /\ SeIdle
    /\ SvIdle

\* ... and the function is applied to them.
CallCheckMailAuth ==
    /\ fn_op = "none"
    /\ fn_op' = "check_mail_auth"
    /\ fn_ok' = check_mail_auth(fn_from, fn_auth)
    /\ UNCHANGED <<fn_from, fn_auth>>
    /\ UNCHANGED <<intakeVars, pmVars, seVars, svVars>>

NextFn == CallCheckMailAuth

SpecFn == InitFn /\ [][NextFn]_vars

\* ========================================================================
\* The command interpreter, process_messages.py

\* What a line of a message text can change.
effVars == <<run_next, run_adm, dotenv_DEBUG, dotenv_EMAIL_AUTH>>

\* The orders in which os.listdir may return the names of a folder.
Orders(S) ==
    {o \in [1..Cardinality(S) -> S] :
        \A a, b \in 1..Cardinality(S) : a # b => o[a] # o[b]}

\* A plausible slip: only the first entry of the list is validated.
AllValid_FirstOnly(email_list) ==
    email_fullmatch(split_on(email_list, ",")[1])

\* The loop of update_email_auth over email_list.split(','): no entry
\* fails the pattern.
AllValid(email_list) ==
    \A k \in 1..Len(split_on(email_list, ",")) :
        email_fullmatch(split_on(email_list, ",")[k])

update_email_auth(email_list) ==
    /\ IF AllValid(email_list)
       THEN dotenv_EMAIL_AUTH' = email_list /\ pm_logged' = NoLog
       ELSE UNCHANGED dotenv_EMAIL_AUTH /\ pm_logged' = 3
    /\ UNCHANGED <<run_next, run_adm, dotenv_DEBUG>>

\* str(new_debug) of update_debug_var.
new_debug(param_list) ==
    IF lower(split_on(param_list, ",")[1]) \in {<<"y", "e", "s">>, <<"o", "n">>, <<"t", "r", "u", "e">>}
    THEN <<"T", "r", "u", "e">>
    ELSE <<"F", "a", "l", "s", "e">>

update_debug_var(param_list) ==
    /\ dotenv_DEBUG' = new_debug(param_list)
    /\ pm_logged' = NoLog
    /\ UNCHANGED <<run_next, run_adm, dotenv_EMAIL_AUTH>>

\* A plausible slip: the URL test is made without lower().
IsSlidesUrl_CaseSensitive(rest_of_list) ==
    contains(rest_of_list, <<"d", "o", "c", "s", ".", "g", "o", "o", "g", "l", "e", ".", "c", "o", "m">>)

\* "docs.google.com" in rest_of_list.lower()
IsSlidesUrl(rest_of_list) ==
    contains(lower(rest_of_list), <<"d", "o", "c", "s", ".", "g", "o", "o", "g", "l", "e", ".", "c", "o", "m">>)

write_google_data(rest_of_list) ==
    /\ IF IsSlidesUrl(rest_of_list)
       THEN /\ run_next' = write_next_file(CMND_GOOGLE, rest_of_list)
            /\ pm_logged' = NoLog
       ELSE /\ UNCHANGED run_next
            /\ pm_logged' = 4
    /\ UNCHANGED <<run_adm, dotenv_DEBUG, dotenv_EMAIL_AUTH>>

\* A plausible slip: the extension is not compared.
is_presentation_AnyFile(atch_name, fileprefix) ==
    startswith(atch_name, fileprefix)

\* The test of write_pp_impress_data on one name of the folder.
is_presentation(atch_name, fileprefix) ==
    /\ startswith(atch_name, fileprefix)
    /\ endswith(atch_name, IMPRES_SUFFIX) \/ endswith(atch_name, PPOINT_SUFFIX)

\* write_pp_impress_data(fileprefix): every matching name of the listing
\* is written in turn, the last one stays.
write_pp_impress_data(fileprefix) ==
    /\ \E atch_list \in Orders(atch_dir) :
          LET found == SelectSeq(atch_list,
                                 LAMBDA n : is_presentation(n, fileprefix))
          IN  IF found # <<>>
              THEN run_next' = write_next_file(CMND_POWERP, found[Len(found)])
              ELSE UNCHANGED run_next
    /\ pm_logged' = NoLog
    /\ UNCHANGED <<run_adm, dotenv_DEBUG, dotenv_EMAIL_AUTH>>

\* shutil.copy(src, RUN_NEXT_FILE) inside try / except Exception, the
\* except branch logging LOG_ERR[err].
shutil_copy(src, err) ==
    \E outcome \in CopyOutcomes :
       /\ resolve(split_on(src, "/"), <<>>) = <<RUN_NEXT_FILE>> =>
             outcome = "refused"
       /\ IF outcome = "copied"
          THEN run_next' = FileAt(src) /\ pm_logged' = NoLog
          ELSE IF outcome = "refused"
          THEN UNCHANGED run_next /\ pm_logged' = err
          ELSE run_next' = TextFile(<<>>) /\ pm_logged' = err

\* write_run_file(p_filedata): the file named under the permanent folder
\* is copied onto the next-file.
write_run_file(p_filedata) ==
    /\ IF Len(p_filedata) > 0
       THEN LET perm_file == os_path_join(PERM_FOLDER, p_filedata)
            IN  IF isfile(perm_file)
                THEN shutil_copy(perm_file, 5)
                ELSE UNCHANGED run_next /\ pm_logged' = 6
       ELSE UNCHANGED run_next /\ pm_logged' = 7
    /\ UNCHANGED <<run_adm, dotenv_DEBUG, dotenv_EMAIL_AUTH>>

\* The start / restart branch: shutil.copy(RUN_NOW_FILE, RUN_NEXT_FILE).
copy_run_now ==
    /\ shutil_copy(RUN_NOW_FILE, 2)
    /\ UNCHANGED <<run_adm, dotenv_DEBUG, dotenv_EMAIL_AUTH>>

\* mng_data of write_manage_next.
mng_data(p_data) == strip(join(<<" ">>, Tail(csv_reader(p_data))))

\* atch_file of write_manage_next.
atch_file(p_fileprefix, atch_list) ==
    join(<<",">>,
         SelectSeq(atch_list, LAMBDA n : startswith(n, p_fileprefix)))

write_manage_next(p_fileprefix, p_cmnd, p_data) ==
    /\ \E atch_list \in Orders(atch_dir) :
          run_adm' = write_adm_file(p_cmnd, mng_data(p_data),
                                    atch_file(p_fileprefix, atch_list))
    /\ pm_logged' = NoLog
    /\ UNCHANGED <<run_next, dotenv_DEBUG, dotenv_EMAIL_AUTH>>

\* A plausible slip: only the verb stop stops the presentation.
is_stop_OnlyStop(command) == command = CMND_STOP

\* command in (CMND_STOP, CMND_HALT)
is_stop(command) == command \in {CMND_STOP, CMND_HALT}

\* A plausible slip: a line of no known verb is taken for a stop.
ignore_command_Stops ==
    /\ run_next' = write_next_file(CMND_STOP, <<>>)
    /\ pm_logged' = NoLog
    /\ UNCHANGED <<run_adm, dotenv_DEBUG, dotenv_EMAIL_AUTH>>

\* The last branch of process_data: a line of no known verb is passed
\* over.
ignore_command == UNCHANGED effVars /\ pm_logged' = NoLog

\* One pass of the loop of process_data: the line raw of the text of the
\* message mesg_prefix.  atch_list is what os.listdir returns for the
\* attachments folder.
process_line(raw, mesg_prefix) ==
    LET line == strip(raw)
        word_list == split(line)
        command == lower(word_list[1])
        rest_of_list == join(<<",">>, Tail(word_list))
    IN  IF Len(line) < 1
        THEN UNCHANGED effVars /\ pm_logged' = NoLog
        ELSE IF command \in {CMND_AUTH1, CMND_AUTH2}
        THEN IF Len(rest_of_list) > 0
             THEN update_email_auth(rest_of_list)
             ELSE UNCHANGED effVars /\ pm_logged' = 1
        ELSE IF command = CMND_DEBUG
        THEN update_debug_var(rest_of_list)
        ELSE IF command = CMND_GOOGLE
        THEN write_google_data(rest_of_list)
        ELSE IF command \in {CMND_POWERP, CMND_IMPRESS}
        THEN write_pp_impress_data(mesg_prefix)
        ELSE IF command = CMND_RUN
        THEN write_run_file(rest_of_list)
        ELSE IF command \in {CMND_START, CMND_RSTART}
        THEN copy_run_now
        ELSE IF is_stop(command)
        THEN /\ run_next' = write_next_file(CMND_STOP, <<>>)
             /\ pm_logged' = NoLog
             /\ UNCHANGED <<run_adm, dotenv_DEBUG, dotenv_EMAIL_AUTH>>
        ELSE IF command \in SYSADM_CMDS
        THEN write_manage_next(mesg_prefix, command, line)
        ELSE ignore_command

\* A plausible slip: a run on an empty folder resets the next-file.
MsgStart_ResetNext ==
    /\ pm_pc = "start"
    /\ IF mesg_dir = {}
       THEN /\ pm_todo' = <<>>
            /\ pm_pc' = "finish"
            /\ run_next' = write_next_file(CMND_STOP, <<>>)
       ELSE /\ pm_todo' = sorted(mesg_dir)
            /\ pm_pc' = "file"
            /\ UNCHANGED run_next
    /\ pm_logged' = NoLog
    /\ UNCHANGED <<mesg_dir, atch_dir, run_adm, dotenv_DEBUG,
                   dotenv_EMAIL_AUTH, pm_fname, pm_left, pm_line,
                   pm_remove_list, pm_exit>>
    /\ UNCHANGED <<intakeVars, fnVars, seVars, svVars>>

\* main(): initialise() and the start of process_files(): an empty
\* messages folder returns an empty remove_list, else the names are
\* visited in sorted order.
MsgStart ==
    /\ pm_pc = "start"
    /\ IF mesg_dir = {}
       THEN /\ pm_todo' = <<>>
            /\ pm_pc' = "finish"
       ELSE /\ pm_todo' = sorted(mesg_dir)
            /\ pm_pc' = "file"
    /\ pm_logged' = NoLog
    /\ UNCHANGED <<mesg_dir, atch_dir, run_next, run_adm, dotenv_DEBUG,
                   dotenv_EMAIL_AUTH, pm_fname, pm_left, pm_line,
                   pm_remove_list, pm_exit>>
    /\ UNCHANGED <<intakeVars, fnVars, seVars, svVars>>

\* The file at the head of pm_todo has been dealt with.
FileDone ==
    /\ pm_remove_list' = Append(pm_remove_list, Head(pm_todo))
    /\ pm_todo' = Tail(pm_todo)
    /\ pm_pc' = "file"

\* The text of the file has n lines: process_data is entered, or returns
\* at once for an empty text.
TextRead(fname, n) ==
    IF n = 0
    THEN /\ FileDone
         /\ UNCHANGED <<pm_fname, pm_left, pm_exit>>
    ELSE /\ pm_fname' = fname
         /\ pm_left' = n
         /\ pm_pc' = "line"
         /\ UNCHANGED <<pm_todo, pm_remove_list, pm_exit>>

\* A plausible slip: a text file is interpreted whether or not the
\* message has an html file.
has_html_Never(fname) == FALSE

\* os.path.isfile(MESG_FOLDER + "/" + fname + HTML_SUFFIX).
has_html(fname) == (fname \o HTML_SUFFIX) \in mesg_dir

\* One pass of the loop of process_files up to the call of process_data.
\* The text of a file is drawn when it is read: n is its number of lines,
\* -1 stands for html2text failing (check_output raises, nothing catches
\* it).
NextFile ==
    /\ pm_pc = "file"
    /\ IF pm_todo = <<>>
       THEN /\ pm_pc' = "finish"
            /\ pm_logged' = NoLog
            /\ UNCHANGED <<pm_todo, pm_fname, pm_left, pm_remove_list,
                           pm_exit>>
       ELSE LET filename == Head(pm_todo)
                fname == get_filename_ext(filename)[1]
                extn == get_filename_ext(filename)[2]
            IN  IF lower(extn) = HTML_SUFFIX
                THEN /\ \E n \in -1..MaxLines :
                          IF n = -1
                          THEN /\ pm_pc' = "crashed"
                               /\ pm_exit' = 1
                               /\ UNCHANGED <<pm_todo, pm_fname, pm_left,
                                              pm_remove_list>>
                          ELSE TextRead(fname, n)
                     /\ pm_logged' = NoLog
                ELSE IF lower(extn) = TEXT_SUFFIX
                THEN /\ IF has_html(fname)
                        THEN /\ FileDone
                             /\ UNCHANGED <<pm_fname, pm_left, pm_exit>>
                        ELSE \E n \in 0..MaxLines : TextRead(fname, n)
                     /\ pm_logged' = NoLog
                ELSE /\ FileDone
                     /\ pm_logged' = 0
                     /\ UNCHANGED <<pm_fname, pm_left, pm_exit>>
    /\ UNCHANGED <<mesg_dir, atch_dir, pm_line>>
    /\ UNCHANGED effVars
    /\ UNCHANGED <<intakeVars, fnVars, seVars, svVars>>

\* process_data handles the next line of the text.
ProcessLine ==
    /\ pm_pc = "line"
    /\ \E raw \in LineCatalog :
          /\ process_line(raw, pm_fname)
          /\ pm_line' = raw
    /\ pm_left' = pm_left - 1
    /\ IF pm_left = 1
       THEN FileDone
       ELSE UNCHANGED <<pm_pc, pm_todo, pm_remove_list>>
    /\ UNCHANGED <<mesg_dir, atch_dir, pm_fname, pm_exit>>
    /\ UNCHANGED <<intakeVars, fnVars, seVars, svVars>>

\* remove_files(remove_list), when the list is not empty, and sys.exit(0).
MsgFinish ==
    /\ pm_pc = "finish"
    /\ mesg_dir' = IF Len(pm_remove_list) > 0
                   THEN mesg_dir \ {pm_remove_list[k] :
                                       k \in 1..Len(pm_remove_list)}
                   ELSE mesg_dir
    /\ pm_exit' = 0
    /\ pm_pc' = "exited"
    /\ pm_logged' = NoLog
    /\ UNCHANGED <<atch_dir, pm_todo, pm_fname, pm_left, pm_line,
                   pm_remove_list>>
    /\ UNCHANGED effVars
    /\ UNCHANGED <<intakeVars, fnVars, seVars, svVars>>

InitMsg ==
    IntakeInit /\ MESG_COUNT = 7 /\ FnInit /\ PmInit /\ SeIdle /\ SvIdle

NextMsg ==
    \/ MsgStart
    \/ NextFile
    \/ ProcessLine
    \/ MsgFinish

SpecMsg == InitMsg /\ [][NextMsg]_vars

\* The interpreter started on a batch of several messages.
InitBatch ==
    /\ IntakeInit /\ MESG_COUNT = 7 /\ FnInit /\ PmInitIn(BatchFolders)
    /\ SeIdle /\ SvIdle

SpecBatch == InitBatch /\ [][NextMsg]_vars

\* ------------------------------------------------------------------------
\* The outbound queue manager: one run of send_email.py

\* A plausible slip: the Subject is not looked at.
email_checks_NoSubject(p_to_adrs, p_subject) ==
    IF ~p_to_adrs.present \/ Len(p_to_adrs.value) < 2
    THEN FALSE
    ELSE email_fullmatch(StrFound(p_to_adrs.value))

\* email_checks(p_to_adrs, p_subject, p_msgname): the value it returns.
email_checks(p_to_adrs, p_subject) ==
    IF ~p_to_adrs.present \/ Len(p_to_adrs.value) < 2
    THEN FALSE
    ELSE IF ~email_fullmatch(StrFound(p_to_adrs.value))
    THEN FALSE
    ELSE IF ~p_subject.present \/ Len(p_subject.value) < 1
    THEN FALSE
    ELSE TRUE

\* A plausible slip: the file is copied and the original left in place.
shutil_move_Copy(name, dst) ==
    [se_where EXCEPT ![name] = se_where[name] \cup {dst}]

\* shutil.move(p_filename, os.path.join(dst, basename)) when it succeeds:
\* the folders are in one file system, the move is a rename.
shutil_move(name, dst) == [se_where EXCEPT ![name] = {dst}]

\* send_the_message returns to the for loop of main, which sets outcome
\* to 1 when the value returned is False.
Return(result) ==
    /\ se_done' = Append(se_done, result)
    /\ se_outcome' = IF result = "sent" THEN se_outcome ELSE 1
    /\ se_k' = se_k + 1
    /\ UNCHANGED <<se_pc, se_exit>>

\* An exception nothing catches ends the process with a traceback and
\* exit code 1.
Traceback ==
    /\ se_pc' = "crashed"
    /\ se_exit' = 1
    /\ UNCHANGED <<se_done, se_outcome, se_k>>

\* A plausible slip: a failed send ends the for loop.
AfterSendError_Break ==
    /\ se_done' = Append(se_done, "unsent")
    /\ se_outcome' = 1
    /\ se_k' = Len(se_argv) + 1
    /\ UNCHANGED <<se_pc, se_exit>>

\* The except branch of the send: outcome = False, and the loop goes on.
AfterSendError == Return("unsent")

\* A plausible slip: a failed probe is only logged.
ProbeFailed_GoesOn ==
    /\ se_pc' = "login"
    /\ UNCHANGED se_exit

\* open_smtp_server returns False after the probe and main exits with 3.
ProbeFailed ==
    /\ se_pc' = "exited"
    /\ se_exit' = 3

\* The call of shutil.move for a file, and the folders that hold the
\* files after it.
Move(name, dst, moved) ==
    /\ se_moves' = Append(se_moves,
                          [file |-> name, dst |-> dst, ok |-> moved])
    /\ se_where' = IF moved THEN shutil_move(name, dst) ELSE se_where

\* The html text send_the_message builds around the payload.
html(mail_mesg) ==
    <<"<", "h", "t", "m", "l", ">", "\n", "<", "b", "o", "d", "y", ">", "\n", "<", "p", "r", "e", " ", "s", "t", "y", "l", "e", "=", "\"", "f", "o", "n", "t", "-", "f", "a", "m", "i", "l", "y", ":", "'", "C", "o", "u", "r", "i", "e", "r", " ", "n", "e", "w", "'", ",", " ", "m", "o", "n", "o", "s", "p", "a", "c", "e", ";", " ", "f", "o", "n", "t", "-", "s", "i", "z", "e", ":", "1", "0", "0", "%", ";", "\"", ">", "\n">>
    \o mail_mesg \o <<"\n", "<", "/", "p", "r", "e", ">", "\n", "<", "/", "b", "o", "d", "y", ">", "\n", "<", "/", "h", "t", "m", "l", ">">>

\* message.set_content(text, subtype=...): EmailMessage.set_content clears
\* the content the message has and sets the one given.
set_content(message, text, subtype) ==
    <<[subtype |-> subtype, text |-> text]>>

\* message.add_attachment(...): the message becomes multipart, the part
\* is added to what it holds.
add_attachment(message, basename) ==
    Append(message, [subtype |-> "attachment", text |-> basename])

\* The EmailMessage send_the_message builds from the payload and, when
\* the file exists, the attachment.
BuildMessage(mail_mesg, attached, mail_attach) ==
    LET plain == set_content(<<>>, mail_mesg, "plain")
        both == set_content(plain, html(mail_mesg), "html")
    IN  IF attached THEN add_attachment(both, mail_attach) ELSE both

\* send_the_message(p_filename, p_from_adrs).
send_the_message(p_filename) ==
    LET mail_data == FileOf(p_filename)
        mail_attach == mail_data.Attachment
        wanted == mail_attach.present /\ mail_attach.value # <<>>
        attached == wanted /\ mail_attach.value \in AttachFiles
    IN  IF mail_data.dir \notin se_where[p_filename]
        THEN \* open raises: the file is not where the argument says
             /\ Return("unopened")
             /\ UNCHANGED <<se_where, se_parsed, se_sendmail, se_moves>>
        ELSE /\ se_parsed' = se_parsed \cup {p_filename}
             /\ IF ~email_checks(mail_data.To, mail_data.Subject)
                THEN /\ \E moved \in BOOLEAN :
                           Move(p_filename, OTHR_FOLDER, moved)
                     /\ Return("invalid")
                     /\ UNCHANGED se_sendmail
                ELSE \E readable, raised, moved \in BOOLEAN :
                        IF attached /\ ~readable
                        THEN \* open(mail_attach, 'rb') raises
                             /\ Traceback
                             /\ UNCHANGED <<se_where, se_sendmail, se_moves>>
                        ELSE /\ se_sendmail' =
                                   Append(se_sendmail,
                                          [file |-> p_filename,
                                           attached |-> attached,
                                           message |->
                                              BuildMessage(
                                                 mail_data.Payload,
                                                 attached,
                                                 mail_attach.value),
                                           raised |-> raised])
                             /\ IF raised
                                THEN /\ Move(p_filename, QUEUE_DIR, moved)
                                     /\ AfterSendError
                                ELSE /\ Move(p_filename, UNQUEUE_DIR, moved)
                                     /\ IF moved
                                        THEN Return("sent")
                                        ELSE \* shutil.move raises outside
                                             \* any try block
                                             Traceback

\* main up to the call of open_smtp_server: without an argument it exits
\* with 1.
MainStart ==
    /\ se_pc = "start"
    /\ IF Len(se_argv) < 1
       THEN se_pc' = "exited" /\ se_exit' = 1
       ELSE se_pc' = "probe" /\ UNCHANGED se_exit
    /\ UNCHANGED <<se_argv, se_k, se_where, se_probe, se_smtp, se_opened,
                   se_parsed, se_sendmail, se_moves, se_done, se_outcome>>
    /\ UNCHANGED <<intakeVars, fnVars, pmVars, svVars>>

\* open_smtp_server, the check of internet access.
Probe ==
    /\ se_pc = "probe"
    /\ \E ok \in BOOLEAN :
          IF ok
          THEN se_probe' = "ok" /\ se_pc' = "login" /\ UNCHANGED se_exit
          ELSE se_probe' = "failed" /\ ProbeFailed
    /\ UNCHANGED <<se_argv, se_k, se_where, se_smtp, se_opened,
                   se_parsed, se_sendmail, se_moves, se_done, se_outcome>>
    /\ UNCHANGED <<intakeVars, fnVars, pmVars, svVars>>

\* open_smtp_server, the second try block: smtplib.SMTP may refuse the
\* connection, starttls or login may raise on the open connection.
Login ==
    /\ se_pc = "login"
    /\ \E result \in {"refused", "rejected", "ok"} :
          /\ se_smtp' = IF result = "refused" THEN "none"
                        ELSE IF result = "rejected" THEN "connected"
                        ELSE "logged_in"
          /\ se_opened' = IF result = "refused" THEN se_opened
                          ELSE se_opened + 1
          /\ IF result = "ok"
             THEN se_pc' = "loop" /\ UNCHANGED se_exit
             ELSE se_pc' = "exited" /\ se_exit' = 3
    /\ UNCHANGED <<se_argv, se_k, se_where, se_probe,
                   se_parsed, se_sendmail, se_moves, se_done, se_outcome>>
    /\ UNCHANGED <<intakeVars, fnVars, pmVars, svVars>>

\* One pass of the for loop of main.
SendNext ==
    /\ se_pc = "loop"
    /\ se_k <= Len(se_argv)
    /\ send_the_message(se_argv[se_k])
    /\ UNCHANGED <<se_argv, se_probe, se_smtp, se_opened>>
    /\ UNCHANGED <<intakeVars, fnVars, pmVars, svVars>>

\* After the loop: smtplink.quit(), which raises when the server has
\* dropped the connection, and sys.exit(outcome).
MainFinish ==
    /\ se_pc = "loop"
    /\ se_k > Len(se_argv)
    /\ \E quit_ok \in BOOLEAN :
          IF quit_ok
          THEN /\ se_smtp' = "quit"
               /\ se_pc' = "exited"
               /\ se_exit' = se_outcome
          ELSE /\ se_smtp' = "lost"
               /\ se_pc' = "crashed"
               /\ se_exit' = 1
    /\ UNCHANGED <<se_argv, se_k, se_where, se_probe, se_opened,
                   se_parsed, se_sendmail, se_moves, se_done, se_outcome>>
    /\ UNCHANGED <<intakeVars, fnVars, pmVars, svVars>>

InitSend ==
    IntakeInit /\ MESG_COUNT = 7 /\ FnInit /\ PmIdle /\ SeInit /\ SvIdle

NextSend ==
    \/ MainStart
    \/ Probe
    \/ Login
    \/ SendNext
    \/ MainFinish

SpecSend == InitSend /\ [][NextSend]_vars

\* ------------------------------------------------------------------------
\* The save task (sysadmin_save_now.py)

\* re.findall("'([^']*)'", line), as far as its first match.
findall(line) ==
    LET q == {k \in 1..Len(line) : line[k] = "'"}
    IN  IF Cardinality(q) < 2 THEN <<>>
        ELSE <<SubSeq(line, MinOf(q) + 1, MinOf(q \ {MinOf(q)}) - 1)>>

\* 'powerpoint' in lines[0] or 'impress' in lines[0]
is_show(line) == contains(line, CMND_POWERP) \/ contains(line, CMND_IMPRESS)

\* The file a path names after the file system has resolved it.
PathOf(path) == resolve(split_on(path, "/"), <<>>)

\* The disk after a file has been put at a path, replacing what was there.
Put(disk, path, file) ==
    {d \in disk : d.path # PathOf(path)}
       \cup {[path |-> PathOf(path), file |-> file]}

\* An exception nothing catches, or sys.exit with a code.
SaveEnds(how, code) ==
    /\ sv_pc' = how
    /\ sv_exit' = code

\* main up to the use of the argument: without one it exits with 1.
SaveStart ==
    /\ sv_pc = "start"
    /\ IF Len(sv_argv) < 1
       THEN SaveEnds("exited", 1)
       ELSE sv_pc' = "read" /\ UNCHANGED sv_exit
    /\ UNCHANGED <<sv_argv, sv_now, sv_atch, sv_disk, sv_moved>>
    /\ UNCHANGED <<intakeVars, fnVars, pmVars, seVars>>

\* The running_now file is read and looked at: open, lines[0], lines[1]
\* and atch_name[0] raise when there is nothing to read or to index.
SaveRead ==
    /\ sv_pc = "read"
    /\ IF ~sv_now.exists \/ sv_now.lines = <<>>
       THEN SaveEnds("crashed", 1)
       ELSE IF ~is_show(sv_now.lines[1])
       THEN sv_pc' = "copy" /\ UNCHANGED sv_exit
       ELSE IF Len(sv_now.lines) < 2
       THEN SaveEnds("crashed", 1)
       ELSE IF findall(sv_now.lines[2]) = <<>>
       THEN SaveEnds("crashed", 1)
       ELSE sv_pc' = "move" /\ UNCHANGED sv_exit
    /\ UNCHANGED <<sv_argv, sv_now, sv_atch, sv_disk, sv_moved>>
    /\ UNCHANGED <<intakeVars, fnVars, pmVars, seVars>>

\* shutil.move of the attachment, from the attachments folder to the
\* permanent folder, inside try / except: a failure is logged and the
\* process exits with 1.  The move fails when the folder has no such file.
SaveMove ==
    /\ sv_pc = "move"
    /\ LET atch_name == findall(sv_now.lines[2])
           perm_path == os_path_join(PERM_FOLDER, atch_name[1])
       IN  \E moved \in BOOLEAN :
              /\ moved => atch_name[1] \in sv_atch
              /\ IF moved
                 THEN /\ sv_atch' = sv_atch \ {atch_name[1]}
                      /\ sv_disk' = Put(sv_disk, perm_path, AtchData)
                      /\ sv_moved' = "ok"
                      /\ sv_pc' = "copy"
                      /\ UNCHANGED sv_exit
                 ELSE /\ sv_moved' = "failed"
                      /\ SaveEnds("exited", 1)
                      /\ UNCHANGED <<sv_atch, sv_disk>>
    /\ UNCHANGED <<sv_argv, sv_now>>
    /\ UNCHANGED <<intakeVars, fnVars, pmVars, seVars>>

\* shutil.copy(RUN_NOW_FILE, perm_path) inside try / except: a failure is
\* logged and the process exits with 1, otherwise it exits with 0.
SaveCopy ==
    /\ sv_pc = "copy"
    /\ LET perm_name == sv_argv[1]
           perm_path == os_path_join(PERM_FOLDER, perm_name)
       IN  \E outcome \in CopyOutcomes :
              /\ PathOf(perm_path) = <<RUN_NOW_FILE>> => outcome = "refused"
              /\ IF outcome = "copied"
                 THEN /\ sv_disk' = Put(sv_disk, perm_path, sv_now)
                      /\ SaveEnds("exited", 0)
                 ELSE IF outcome = "refused"
                 THEN /\ UNCHANGED sv_disk
                      /\ SaveEnds("exited", 1)
                 ELSE /\ sv_disk' = Put(sv_disk, perm_path, TextFile(<<>>))
                      /\ SaveEnds("exited", 1)
    /\ UNCHANGED <<sv_argv, sv_now, sv_atch, sv_moved>>
    /\ UNCHANGED <<intakeVars, fnVars, pmVars, seVars>>

InitSave ==
    IntakeInit /\ MESG_COUNT = 7 /\ FnInit /\ PmIdle /\ SeIdle /\ SvInit

NextSave ==
    \/ SaveStart
    \/ SaveRead
    \/ SaveMove
    \/ SaveCopy

SpecSave == InitSave /\ [][NextSave]_vars




\* ========================================================================
\* Properties

ScanPositions == {"fetch", "store", "expunge"}

FilesOfIndex(k) == {w \in wrote : w[1] = k}

\* C1: in one cycle no message is flagged \Deleted or expunged before every
\* message 1..count has been fetched and written; a fetch that fails
\* part-way leaves every message of the cycle undeleted.
C1_DeleteOnlyAfterAllFetched ==
    marked # {} => /\ pc \notin {"read", "fetch"}
                   /\ \A k \in 1..count : k \in fetched

\* C2: every message a cycle has fetched and deletes from the server has
\* had at least one file written locally in that cycle, whatever its
\* sender and MIME shape.
C2_DeletedHaveLocalFile ==
    \A k \in marked \cap fetched : FilesOfIndex(k) # {}

\* C3: a sequence id used for files of a message that is gone from the
\* server is not given to a different message while those files exist,
\* also across a stop and restart of the process.
C3_NoIdReuse ==
    \A f \in files, g \in files :
        (f.id = g.id /\ f.owner # g.owner) =>
            (f.owner \notin gone /\ g.owner \notin gone)

\* C4: a cycle over count messages that started at counter c, with
\* c + count <= 9990, persists c + count.
C4_OncePerMessage ==
    (pc = "runner" /\ mcount_old + count <= WrapLimit) =>
        MESG_COUNT = mcount_old + count

\* C5: every value written to MESG_COUNT is in 1..9990, a cycle that starts
\* at 9990 persists 1, and the counter is written only by a cycle that
\* changed it.
C5_Wraparound ==
    /\ [](/\ MESG_COUNT \in 1..WrapLimit
          /\ set_key \in 0..WrapLimit
          /\ (pc = "runner" /\ mcount_old = WrapLimit) =>
                 (set_key = 1 /\ MESG_COUNT = 1))
    /\ [][(MESG_COUNT' # MESG_COUNT \/ set_key' \notin {0, set_key}) =>
              (pc = "persist" /\ mcount # mcount_old)]_vars

C5_Witness ==
    pc = "runner" /\ mcount_old = WrapLimit /\ set_key = 1 /\ MESG_COUNT = 1

Least(S) == CHOOSE x \in S : \A y \in S : x <= y

\* The text inside the first <...> of a From string: between the first "<"
\* that has a ">" further on enclosing at least one character, and the
\* first such ">"; the whole string when there is no such pair.
FirstBracketOpens(s) ==
    {p \in 1..Len(s) : s[p] = "<" /\ \E q \in (p + 2)..Len(s) : s[q] = ">"}

FirstBracketText(s) ==
    IF FirstBracketOpens(s) = {} THEN s
    ELSE LET p == Least(FirstBracketOpens(s))
             q == Least({r \in (p + 2)..Len(s) : s[r] = ">"})
         IN  [k \in 1..(q - p - 1) |-> s[p + k]]

\* C6 as stated: check_mail_auth accepts a From string exactly when the
\* text inside its first <...> (the raw string when there is none) is,
\* character for character, an entry of the sender list.
C6_FirstBracketMembership ==
    fn_op = "check_mail_auth" =>
        (fn_ok <=> \E k \in 1..Len(fn_auth) :
                       fn_auth[k] = FirstBracketText(fn_from))

\* The closing brackets that can end a bracket opened at p: at least one
\* character further on, with no line break in between.
Closings(s, p) ==
    {q \in (p + 2)..Len(s) :
        s[q] = ">" /\ \A r \in (p + 1)..(q - 1) : s[r] # "\n"}

\* The address a From string carries: the text between the first "<" that
\* has such a closing bracket and the first of them; the whole string when
\* no "<" has one.
AddressOf(s) ==
    LET opens == {p \in 1..Len(s) : s[p] = "<" /\ Closings(s, p) # {}}
    IN  IF opens = {} THEN s
        ELSE LET p == Least(opens)
                 q == Least(Closings(s, p))
             IN  [k \in 1..(q - p - 1) |-> s[p + k]]

\* C6, amended: check_mail_auth accepts a From string exactly when the
\* address it carries (the first bracket pair that encloses a non-empty
\* text without a line break, else the raw string) is, character for
\* character, an entry of the sender list.
C6_ExactMembership ==
    fn_op = "check_mail_auth" =>
        (fn_ok <=> \E k \in 1..Len(fn_auth) : fn_auth[k] = AddressOf(fn_from))

C6_Witness ==
    /\ fn_op = "check_mail_auth"
    /\ fn_from = <<"<", "\n", "<", "a", ">">>
    /\ fn_auth = << <<"a">> >>
    /\ fn_ok

\* The sender of message k is not on the list (by the address it carries).
Unauthorized(k) ==
    ~\E n \in 1..Len(mail_auth) : mail_auth[n] = AddressOf(inbox[k].from)

\* C7: a fetched message of an unauthorised sender has exactly one file of
\* this cycle, a full copy in the quarantine folder, none in the messages
\* or attachments folders, and its index is in the deletion batch.
C7_Quarantine ==
    pc \in ScanPositions =>
        \A k \in fetched :
            Unauthorized(k) =>
                /\ Cardinality(FilesOfIndex(k)) = 1
                /\ \A w \in FilesOfIndex(k) :
                      /\ w[2] = OTHR_FOLDER
                      /\ \E f \in files : /\ f.folder = w[2]
                                          /\ f.name = w[3]
                                          /\ f.owner = inbox[k].uid
                                          /\ f.content = "full"
                /\ \A f \in files :
                      f.owner = inbox[k].uid => f.folder = OTHR_FOLDER
                /\ \E n \in 1..Len(remove_list) : Num(remove_list[n]) = k
                /\ pc = "expunge" => k \in marked

C7_Witness ==
    /\ pc = "expunge"
    /\ \E k \in fetched : Unauthorized(k) /\ k \in marked

\* msg7_My_Report__v2_.pptx
Msg7Report ==
    <<"m", "s", "g", "7", "_", "M", "y", "_", "R", "e", "p", "o", "r", "t",
      "_", "_", "v", "2", "_", ".", "p", "p", "t", "x">>

\* The name is msg, the decimal digits of id, an underscore and the
\* original name with every character that is neither alphanumeric nor a
\* dot replaced by an underscore.
SanitizedName(name, id, orig) ==
    \E d \in 1..4 :
        /\ Len(name) = 3 + d + 1 + Len(orig)
        /\ SubSeq(name, 1, 3) = <<"m", "s", "g">>
        /\ name[4] # "0"
        /\ Num(SubSeq(name, 4, 3 + d)) = id
        /\ name[4 + d] = "_"
        /\ \A k \in 1..Len(orig) :
              name[4 + d + k] =
                  IF orig[k] \in Alnum \cup {"."} THEN orig[k] ELSE "_"

\* C8: every attachment is stored as msg<id>_<sanitized original name>,
\* with the id of the other files of its message; "My Report (v2).pptx"
\* with id 7 becomes msg7_My_Report__v2_.pptx.
C8_AttachmentName ==
    /\ \A f \in files :
          f.folder = ATCH_FOLDER =>
              /\ SanitizedName(f.name, f.id, f.orig)
              /\ (f.id = 7 /\ f.orig = AtchFile) => f.name = Msg7Report
    /\ pc \in ScanPositions =>
          \A v \in wrote, w \in wrote :
              v[1] = w[1] =>
                  \A f \in files, g \in files :
                      (/\ f.folder = v[2] /\ f.name = v[3]
                       /\ g.folder = w[2] /\ g.name = w[3]) => f.id = g.id

C8_Witness ==
    /\ pc \in ScanPositions
    /\ \E w \in wrote :
          /\ w[2] = ATCH_FOLDER
          /\ w[3] = Msg7Report
          /\ \E f \in files : f.folder = ATCH_FOLDER /\ f.name = w[3] /\ f.id = 7

\* C9: after a failed search (exception or non-OK code) the session is
\* closed, and until the next open attempt the process only sleeps: no
\* message is read, the runner is not started, and the first network call
\* is the connect of open_email_inbox.
C9_SearchFailureReconnects ==
    failed = "search" =>
        /\ imap_open = FALSE
        /\ imap = "none"
        /\ count = 0
        /\ pc \in {"sleep_inner", "sleep_outer", "connect", "exited"}

C9_Witness == failed = "search" /\ pc = "connect"

\* C10: every failure of the intake loop is followed by exactly one wait
\* of the configured interval before the next open attempt.
C10_ExactlyOneWait ==
    (pc = "connect" /\ failed # "none") => waits = 1

\* ------------------------------------------------------------------------
\* A step in which one of the three stages of open_email_inbox fails.
OpenFailureStep ==
    /\ pc \in {"connect", "login", "select_inbox"}
    /\ failed' = "open"
    /\ waits' = 0

\* C11: a failure of open_email_inbox at the connect, the login or the
\* select stage leaves imap_open False and the process running at the
\* sleep of the outer loop; with the loop scheduled, every such failure is
\* followed by the process standing at the call of open_email_inbox again,
\* which it leaves only by opening (or failing to), unless SIGINT stops
\* the process first.
C11_OpenFailureRetried ==
    /\ [][OpenFailureStep => (imap_open' = FALSE /\ pc' = "sleep_outer")]_vars
    /\ [][(pc = "connect" /\ pc' # "connect") =>
             pc' \in {"login", "sleep_outer", "exited"}]_vars
    /\ (failed = "open" /\ pc = "sleep_outer")
           ~> (pc = "connect" \/ pc = "exited")

C11_Witness == failed = "open" /\ pc = "connect" /\ waits = 1

\* C12: a mail-server failure raised by fetch, store or expunge during a
\* read cycle does not end the process.
C12_ServerFailureNotFatal == pc # "crashed"

\* C13: when the process has exited on SIGINT, no session with the mail
\* server is left: whatever connection existed was closed and logged out.
C13_SigintClosesSession == pc = "exited" => imap = "none"

\* C14: the runner is started only in an iteration whose poll found a
\* message, after the stores, the expunge and the counter write of that
\* iteration; an iteration reaches its sleep through the runner exactly
\* when its poll found a message; and whatever the runner returned,
\* intake goes to the sleep and then polls on the same session.
C14_RunnerAfterCycle ==
    /\ [](pc = "runner" =>
             /\ count > 0
             /\ marked = ListPrefix(remove_list, Len(remove_list))
             /\ marked = 1..count
             /\ \A k \in 1..Len(inbox) : ~inbox[k].deleted
             /\ set_key # 0
             /\ MESG_COUNT = set_key)
    /\ [][(pc # "sleep_inner" /\ pc' = "sleep_inner") =>
             (pc = "runner" <=> count' > 0)]_vars
    /\ [][pc = "runner" =>
             \/ pc' = "exited"
             \/ /\ pc' \in {"runner", "sleep_inner"}
                /\ UNCHANGED <<imap, imap_open, sentry, count>>]_vars
    /\ [][(pc = "sleep_inner" /\ count > 0) =>
             \/ pc' = "exited"
             \/ /\ pc' \in {"sleep_inner", "select"}
                /\ UNCHANGED <<imap, imap_open, sentry>>]_vars

\* The runner failed (the files of the messages folder are still there)
\* and intake is about to poll again on the open session.
C14_Witness ==
    /\ pc = "select"
    /\ count > 0
    /\ set_key # 0
    /\ imap_open
    /\ imap = "selected"
    /\ \E f \in files : f.folder = MESG_FOLDER

\* ------------------------------------------------------------------------
\* Claims about the command interpreter.  A step taken at pm_pc = "line"
\* is one pass of process_data; pm_line' is the line it handled.

\* The verb of a line: its first white-space delimited token, lower-cased;
\* empty for a blank line.
Verb(raw) == IF split(raw) = <<>> THEN <<>> ELSE lower(split(raw)[1])

\* The argument string of a line: its remaining tokens rejoined with
\* commas.
Argument(raw) == join(<<",">>, Tail(split(raw)))

\* What no step of a run on an empty folder may change.
InterpreterOutputs == <<run_next, run_adm, dotenv_DEBUG, dotenv_EMAIL_AUTH,
                        mesg_dir, atch_dir>>

\* C15: a run that finds the messages folder empty goes straight to its
\* end with an empty remove list, and ends with exit code 0; neither step
\* writes the next-file or the admin-file, changes DEBUG or EMAIL_AUTH, or
\* removes a file.
C15_EmptyFolderRun ==
    /\ [][(pm_pc = "start" /\ mesg_dir = {}) =>
             /\ pm_pc' = "finish"
             /\ pm_remove_list' = <<>>
             /\ UNCHANGED InterpreterOutputs]_vars
    /\ [][(pm_pc = "finish" /\ pm_remove_list = <<>>) =>
             /\ pm_pc' = "exited"
             /\ pm_exit' = 0
             /\ UNCHANGED InterpreterOutputs]_vars

C15_Witness ==
    /\ pm_pc = "exited"
    /\ pm_remove_list = <<>>
    /\ pm_exit = 0
    /\ mesg_dir = {}
    /\ run_next = RunNowText
    /\ run_adm = NoFile

C17_StopVerb ==
    [][(pm_pc = "line" /\ Verb(pm_line') \in {<<"s", "t", "o", "p">>, <<"h", "a", "l", "t">>}) =>
          run_next' = write_next_file(<<"s", "t", "o", "p">>, <<>>)]_vars

C17_Witness ==
    /\ pm_line = <<" ", "H", "A", "L", "T", " ", "n", "o", "w", " ">>
    /\ run_next = write_next_file(<<"s", "t", "o", "p">>, <<>>)

\* C18: an email_auth or emailauth line replaces EMAIL_AUTH by its
\* argument string when that is not empty and every comma-separated entry
\* of it matches the address pattern; otherwise EMAIL_AUTH is unchanged.
C18_EmailAuthAllOrNothing ==
    [][(pm_pc = "line" /\ Verb(pm_line') \in {<<"e", "m", "a", "i", "l", "_", "a", "u", "t", "h">>, <<"e", "m", "a", "i", "l", "a", "u", "t", "h">>}) =>
          LET list == Argument(pm_line')
              entries == split_on(list, ",")
          IN  IF /\ list # <<>>
                 /\ \A k \in 1..Len(entries) : email_fullmatch(entries[k])
              THEN dotenv_EMAIL_AUTH' = list
              ELSE UNCHANGED dotenv_EMAIL_AUTH]_vars

C18_Witness ==
    /\ pm_line = <<"e", "m", "a", "i", "l", "a", "u", "t", "h", " ", "b", "@", "c", ".", "d", "e", " ", "A", "@", "b", ".", "c", "o">>
    /\ dotenv_EMAIL_AUTH = <<"b", "@", "c", ".", "d", "e", ",", "A", "@", "b", ".", "c", "o">>

\* The names of the attachments folder that start with the prefix of the
\* message being processed.
OfMessage == {n \in atch_dir : startswith(n, pm_fname)}

\* Those of them that end in a presentation extension.
Presentations ==
    {n \in OfMessage : endswith(n, <<".", "o", "d", "p">>) \/ endswith(n, <<".", "p", "p", "s", "x">>)}

\* C19: a powerpoint or impress line writes the next-file with cmd
\* powerpoint and, as data, a name of the attachments folder that starts
\* with the prefix of the message and ends in a presentation extension;
\* when there is no such name the next-file is not written.
C19_PowerpointVerb ==
    [][(pm_pc = "line" /\ Verb(pm_line') \in {<<"p", "o", "w", "e", "r", "p", "o", "i", "n", "t">>, <<"i", "m", "p", "r", "e", "s", "s">>}) =>
          IF Presentations # {}
          THEN \E n \in Presentations :
                  run_next' = write_next_file(<<"p", "o", "w", "e", "r", "p", "o", "i", "n", "t">>, n)
          ELSE UNCHANGED run_next]_vars

C19_Witness ==
    /\ pm_line = <<"I", "m", "p", "r", "e", "s", "s", " ", "x">>
    /\ pm_fname = <<"m", "s", "g", "7">>
    /\ run_next = write_next_file(<<"p", "o", "w", "e", "r", "p", "o", "i", "n", "t">>, <<"m", "s", "g", "7", "_", "b", ".", "p", "p", "s", "x">>)

\* Quote-aware tokens of a line: white space separates tokens, a pair of
\* double quotes groups the characters between them into the token.
RECURSIVE QuoteTokens(_, _, _, _)
QuoteTokens(s, tok, quoted, open) ==
    IF s = <<>> THEN IF open THEN <<tok>> ELSE <<>>
    ELSE LET c == Head(s)
         IN  IF quoted
             THEN IF c = "\""
                  THEN QuoteTokens(Tail(s), tok, FALSE, TRUE)
                  ELSE QuoteTokens(Tail(s), Append(tok, c), TRUE, TRUE)
             ELSE IF c = "\""
             THEN QuoteTokens(Tail(s), tok, TRUE, TRUE)
             ELSE IF c \in Whitespace
             THEN (IF open THEN <<tok>> ELSE <<>>)
                  \o QuoteTokens(Tail(s), <<>>, FALSE, FALSE)
             ELSE QuoteTokens(Tail(s), Append(tok, c), FALSE, TRUE)

\* C20: a line whose verb is a sysadmin verb writes the admin-file with
\* that verb as cmd, the quote-aware tokens after the verb joined by
\* spaces as data, and the comma-joined names of the attachments of the
\* message as attachment list; the next-file is not touched.
C20_SysadminVerb ==
    [][(pm_pc = "line" /\ Verb(pm_line') \in SYSADM_CMDS) =>
          /\ \E atch_list \in Orders(OfMessage) :
                run_adm' = write_adm_file(
                    Verb(pm_line'),
                    join(<<" ">>, Tail(QuoteTokens(pm_line', <<>>, FALSE, FALSE))),
                    join(<<",">>, atch_list))
          /\ UNCHANGED run_next]_vars

\* The verbs process_data knows.
RecognisedVerbs ==
    {CMND_AUTH1, CMND_AUTH2, CMND_DEBUG, CMND_GOOGLE, CMND_POWERP,
     CMND_IMPRESS, CMND_RUN, CMND_START, CMND_RSTART, CMND_STOP, CMND_HALT}
    \cup SYSADM_CMDS

\* The interpreter goes on with the next line of the text, or with the
\* next file after the last line.
GoesOn ==
    /\ pm_left' = pm_left - 1
    /\ pm_pc' = IF pm_left > 1 THEN "line" ELSE "file"
    /\ pm_exit' = pm_exit

\* C21: a line whose first token, lower-cased, is no known verb writes
\* neither trigger file and changes neither DEBUG nor EMAIL_AUTH, and the
\* interpreter goes on with the next line.
C21_UnknownVerbIgnored ==
    [][(pm_pc = "line" /\ Verb(pm_line') # <<>>
           /\ Verb(pm_line') \notin RecognisedVerbs) =>
          /\ UNCHANGED <<run_next, run_adm, dotenv_DEBUG, dotenv_EMAIL_AUTH>>
          /\ UNCHANGED <<mesg_dir, atch_dir>>
          /\ GoesOn]_vars

C21_Witness ==
    /\ pm_line = <<"h", "e", "l", "l", "o">>
    /\ pm_pc = "file"
    /\ run_next = write_next_file(CMND_STOP, <<>>)
    /\ run_adm = NoFile

\* C22: a run line whose argument is the name of a file of the permanent
\* folder leaves a copy of that file as next-file, unless the copy fails;
\* when the argument is empty or no such name, or the copy fails, the
\* next-file is as it was; either way the interpreter goes on with the
\* next line.
C22_RunVerb ==
    [][(pm_pc = "line" /\ Verb(pm_line') = CMND_RUN) =>
          LET arg == Argument(pm_line')
              named == arg # <<>> /\ arg \in PermNames
          IN  /\ (named /\ pm_logged' # 5) => run_next' = PermText
              /\ (~named \/ pm_logged' = 5) => UNCHANGED run_next
              /\ GoesOn]_vars

\* A line KEY=value of a trigger file, with what is written before the
\* key and around the value.
KeyLine(pre, key, quote, value) ==
    pre \o key \o <<"=">> \o quote \o value \o quote

\* A line KEY=value of a trigger file for some value.
IsKeyLine(line, pre, key, quote) ==
    /\ startswith(line, pre \o key \o <<"=">> \o quote)
    /\ endswith(line, quote)
    /\ Len(line) >= Len(pre) + Len(key) + 1 + 2 * Len(quote)

\* The verbs whose handler calls write_next_file.
NextFileVerbs == {CMND_GOOGLE, CMND_POWERP, CMND_IMPRESS, CMND_STOP, CMND_HALT}

\* A line that changes the next-file through write_next_file leaves the
\* two lines of its command alone, each line written as
\* pre KEY = quote value quote.
NextFileReplaced(pre, quote) ==
    (pm_pc = "line" /\ Verb(pm_line') \in NextFileVerbs
        /\ run_next' # run_next) =>
       \E cmnd \in {CMND_GOOGLE, CMND_POWERP, CMND_STOP} :
       \E data \in {<<>>, Argument(pm_line')} \cup atch_dir :
          run_next'.lines =
             <<KeyLine(pre, <<"R", "U", "N", "_", "C", "M", "N", "D">>, quote, cmnd),
               KeyLine(pre, <<"R", "U", "N", "_", "D", "A", "T", "A">>, quote, data)>>

\* A line that writes the admin-file leaves the three lines of its command
\* alone.
AdmFileReplaced(pre, quote) ==
    (pm_pc = "line" /\ Verb(pm_line') \in SYSADM_CMDS) =>
       /\ Len(run_adm'.lines) = 3
       /\ run_adm'.lines[1] =
             KeyLine(pre, <<"R", "U", "N", "_", "C", "M", "N", "D">>, quote, Verb(pm_line'))
       /\ IsKeyLine(run_adm'.lines[2], pre, <<"R", "U", "N", "_", "D", "A", "T", "A">>, quote)
       /\ IsKeyLine(run_adm'.lines[3], pre, <<"R", "U", "N", "_", "A", "T", "C", "H">>, quote)

\* C23 as stated: the lines are RUN_CMND=<verb>, RUN_DATA=<payload> and
\* RUN_ATCH=<comma-list>.
C23_TriggerFilesAsStated ==
    /\ [][NextFileReplaced(<<>>, <<>>)]_vars
    /\ [][AdmFileReplaced(<<>>, <<>>)]_vars

\* C23: every write of a trigger file replaces its whole content; the
\* next-file is then exactly the two lines export RUN_CMND='<verb>' and
\* export RUN_DATA='<payload>', the admin-file those two and
\* export RUN_ATCH='<comma-list>', with nothing of an earlier command.
C23_TriggerFilesReplaced ==
    /\ [][NextFileReplaced(<<"e", "x", "p", "o", "r", "t", " ">>, <<"'">>)]_vars
    /\ [][AdmFileReplaced(<<"e", "x", "p", "o", "r", "t", " ">>, <<"'">>)]_vars

C23_Witness ==
    /\ pm_line = <<"r", "e", "b", "o", "o", "t">>
    /\ pm_pc = "file"
    /\ run_adm = TextFile(<<<<"e", "x", "p", "o", "r", "t", " ", "R", "U", "N", "_", "C", "M", "N", "D", "=", "'", "r", "e", "b", "o", "o", "t", "'">>,
                            <<"e", "x", "p", "o", "r", "t", " ", "R", "U", "N", "_", "D", "A", "T", "A", "=", "'", "'">>,
                            <<"e", "x", "p", "o", "r", "t", " ", "R", "U", "N", "_", "A", "T", "C", "H", "=", "'", "'">>>>)
    /\ run_next = write_next_file(CMND_STOP, <<>>)

\* C24: a run of the interpreter that has ended has ended with exit code
\* 0.
C24_AlwaysExitZero ==
    pm_pc \in {"exited", "crashed"} => pm_exit = 0

\* An outbound file whose To header is missing, shorter than 2 characters
\* or malformed, or whose Subject is missing or empty.
Invalid(name) ==
    LET to == FileOf(name).To
        subject == FileOf(name).Subject
    IN  \/ ~to.present
        \/ Len(to.value) < 2
        \/ ~email_fullmatch(StrFound(to.value))
        \/ ~subject.present
        \/ subject.value = <<>>

\* The files given to smtplink.sendmail so far.
GivenToSend == {se_sendmail[k].file : k \in 1..Len(se_sendmail)}

\* The run of the sender has ended.
SenderEnded == se_pc \in {"exited", "crashed"}

C26_ProbeBeforeSession ==
    /\ se_probe = "failed" =>
          /\ se_smtp = "none"
          /\ se_opened = 0
          /\ se_parsed = {}
          /\ se_sendmail = <<>>
          /\ se_moves = <<>>
          /\ se_where = [n \in OutNames |-> {FileOf(n).dir}]
          /\ se_pc = "exited"
          /\ se_exit = 3
    /\ se_opened <= 1
    /\ (se_opened > 0 \/ se_smtp # "none") => se_probe = "ok"

C26_Witness ==
    /\ se_probe = "failed"
    /\ se_argv = <<"m1", "m4">>
    /\ se_pc = "exited"
    /\ se_exit = 3

\* The arguments are valid files, no file given twice.
ValidFilesGiven ==
    /\ Len(se_argv) >= 1
    /\ \A k \in 1..Len(se_argv) : ~Invalid(se_argv[k])
    /\ \A j, k \in 1..Len(se_argv) : se_argv[j] = se_argv[k] => j = k

\* The files for which the send raised.
SendRaised == {se_sendmail[k].file : k \in {j \in 1..Len(se_sendmail) :
                                              se_sendmail[j].raised}}

\* No call of shutil.move failed.
MovesDone == \A k \in 1..Len(se_moves) : se_moves[k].ok

\* C27: when valid files are given, the send raises for exactly one of
\* them and nothing else fails, the run ends with that file in the queue
\* folder, every other file in the sent folder, and exit code 1.
C27_OneSendFails ==
    (se_pc = "exited" /\ se_smtp = "quit" /\ ValidFilesGiven
        /\ Cardinality(SendRaised) = 1 /\ MovesDone) =>
       /\ \A k \in 1..Len(se_argv) :
             se_where[se_argv[k]] =
                IF se_argv[k] \in SendRaised THEN {QUEUE_DIR}
                ELSE {UNQUEUE_DIR}
       /\ se_exit = 1

C27_Witness ==
    /\ se_pc = "exited"
    /\ se_argv = <<"m2", "m1">>
    /\ SendRaised = {"m2"}
    /\ se_where["m2"] = {QUEUE_DIR}
    /\ se_where["m1"] = {UNQUEUE_DIR}
    /\ se_exit = 1

\* C28: a run ends with exit code 0 exactly when every file given was
\* sent and moved to the sent folder; with 1 exactly when no file was
\* given, or the SMTP session was established and a file failed
\* validation, could not be opened or failed to send; with 3 exactly when
\* the probe or the SMTP login failed.
C28_ExitCodes ==
    SenderEnded =>
       LET established == se_smtp \in {"logged_in", "quit", "lost"}
           failures == {k \in 1..Len(se_done) : se_done[k] # "sent"}
           all_sent == /\ Len(se_argv) >= 1
                       /\ Len(se_done) = Len(se_argv)
                       /\ failures = {}
                       /\ \A k \in 1..Len(se_argv) :
                             se_where[se_argv[k]] = {UNQUEUE_DIR}
       IN  /\ se_exit = 0 <=> all_sent
           /\ se_exit = 1 <=>
                 \/ Len(se_argv) = 0
                 \/ established /\ failures # {}
           /\ se_exit = 3 <=>
                 /\ Len(se_argv) >= 1
                 /\ se_probe = "failed" \/ (se_probe = "ok" /\ ~established)

\* The folders of the sender.
SenderFolders == {QUEUE_DIR, UNQUEUE_DIR, OTHR_FOLDER}

C30_BatchNeverAborted ==
    /\ [][(se_pc = "loop" /\ se_k <= Len(se_argv)) =>
             /\ se_pc' = "loop"
             /\ se_k' = se_k + 1]_vars
    /\ [][(se_pc = "loop" /\ se_k <= Len(se_argv)
              /\ se_argv[se_k] = "m3" /\ se_where["m3"] = {QUEUE_DIR}) =>
             /\ Len(se_sendmail') = Len(se_sendmail) + 1
             /\ se_sendmail'[Len(se_sendmail')].file = "m3"
             /\ ~se_sendmail'[Len(se_sendmail')].attached]_vars

\* C31: every message given to the SMTP send holds a plain-text body equal
\* to the payload of its file and an html body that wraps that payload in
\* a <pre> block.
C31_PlainAndHtmlBodies ==
    \A k \in 1..Len(se_sendmail) :
       LET message == se_sendmail[k].message
           payload == FileOf(se_sendmail[k].file).Payload
       IN  /\ \E p \in 1..Len(message) :
                /\ message[p].subtype = "plain"
                /\ message[p].text = payload
           /\ \E p \in 1..Len(message) :
                /\ message[p].subtype = "html"
                /\ \E pre \in 1..Len(message[p].text) :
                      /\ startswith(SubSeq(message[p].text, pre,
                                           Len(message[p].text)), <<"<", "p", "r", "e">>)
                      /\ contains(SubSeq(message[p].text, pre,
                                         Len(message[p].text)),
                                  <<">", "\n">> \o payload \o <<"\n", "<", "/", "p", "r", "e", ">">>)

\* The attachments intake wrote for the message being interpreted.
OwnAttachments == {n \in atch_dir : startswith(n, pm_fname \o <<"_">>)}

\* C32: a powerpoint or impress line that writes the next-file names an
\* attachment of its own message, and the attachment list a sysadmin line
\* writes holds attachments of its own message only.
C32_OnlyOwnAttachments ==
    /\ [][(pm_pc = "line" /\ Verb(pm_line') \in {CMND_POWERP, CMND_IMPRESS}
              /\ run_next' # run_next) =>
             \E n \in OwnAttachments :
                run_next' = write_next_file(CMND_POWERP, n)]_vars
    /\ [][(pm_pc = "line" /\ Verb(pm_line') \in SYSADM_CMDS) =>
             \E own \in SUBSET OwnAttachments : \E atch_list \in Orders(own) :
                run_adm'.lines[3] =
                   <<"e", "x", "p", "o", "r", "t", " ", "R", "U", "N", "_", "A", "T", "C", "H", "=", "'">> \o join(<<",">>, atch_list) \o <<"'">>]_vars

\* The sequence id in the name of a message file.
SeqId(name) ==
    LET fname == get_filename_ext(name)[1]
    IN  CHOOSE k \in 1..99 :
           Str(k) = SubSeq(fname, Len(FILE_PREFIX) + 1, Len(fname))

\* C33: the files of a batch are processed in ascending order of their
\* sequence ids, so that the message with the highest id is the last to
\* write the next-file.
C33_AscendingIdOrder ==
    \A j, k \in 1..Len(pm_todo) :
       j < k => SeqId(pm_todo[j]) <= SeqId(pm_todo[k])

\* The file is one whose text process_files gives to process_data: an
\* html file, or a text file of a message without html file.
Interpreted(filename) ==
    LET fname == get_filename_ext(filename)[1]
        extn == get_filename_ext(filename)[2]
    IN  \/ extn = HTML_SUFFIX
        \/ extn = TEXT_SUFFIX /\ (fname \o HTML_SUFFIX) \notin mesg_dir

\* C34: each file of the batch is taken once; the text of a message is
\* given to process_data from its html file when it has one, from its
\* text file otherwise, never from both; and at the end of the loop every
\* file of the messages folder is on the removal list, once.
C34_DispatchedOnce ==
    /\ [][(pm_pc = "file" /\ pm_todo # <<>> /\ pm_pc' # "crashed") =>
             LET filename == Head(pm_todo)
             IN  /\ pm_todo' = IF pm_pc' = "line" THEN pm_todo
                               ELSE Tail(pm_todo)
                 /\ filename \notin {pm_todo'[k] : k \in 2..Len(pm_todo')}
                 /\ ~Interpreted(filename) =>
                       /\ pm_pc' = "file"
                       /\ pm_remove_list' = Append(pm_remove_list, filename)
                 /\ pm_pc' = "line" =>
                       /\ Interpreted(filename)
                       /\ pm_fname' = get_filename_ext(filename)[1]]_vars
    /\ [](pm_pc = "line" =>
             /\ Interpreted(Head(pm_todo))
             /\ pm_fname = get_filename_ext(Head(pm_todo))[1])
    /\ [](pm_pc = "finish" =>
             /\ {pm_remove_list[k] : k \in 1..Len(pm_remove_list)} = mesg_dir
             /\ Len(pm_remove_list) = Cardinality(mesg_dir))

C34_Witness ==
    /\ pm_pc = "finish"
    /\ pm_remove_list = <<BodyName(10, TEXT_SUFFIX), BodyName(7, HTML_SUFFIX),
                          BodyName(7, TEXT_SUFFIX)>>
    /\ pm_fname = BodyName(7, <<>>)
    /\ run_next = write_next_file(CMND_STOP, <<>>)

\* C35: when a run has ended, normally or not, every file whose text was
\* given to process_data in that run is gone from the messages folder.
C35_DispatchedFilesRemoved ==
    pm_pc \in {"exited", "crashed"} =>
       \A k \in 1..Len(pm_remove_list) :
          Interpreted(pm_remove_list[k]) => pm_remove_list[k] \notin mesg_dir

\* C36: in an intake cycle the indices marked deleted are the indices the
\* cycle fetched, 1..count for the count the poll returned: a message that
\* arrives after the poll is neither fetched nor flagged in that cycle,
\* and the expunge of the cycle leaves it in the mailbox.
C36_LateArrivalKept ==
    /\ [](pc \in {"fetch", "store", "expunge"} =>
             /\ fetched \subseteq 1..count
             /\ ListPrefix(remove_list, Len(remove_list)) \subseteq 1..count
             /\ marked \subseteq 1..count
             /\ \A k \in (count + 1)..Len(inbox) : ~inbox[k].deleted)
    /\ [](pc = "expunge" => marked = 1..count)
    /\ [][(pc = "expunge" /\ pc' = "persist") =>
             /\ inbox' = SubSeq(inbox, count + 1, Len(inbox))
             /\ gone' = gone \cup {inbox[k].uid : k \in 1..count}]_vars

\* The cycle polled one message and has expunged it; the message that
\* arrived during the cycle is still in the mailbox, unflagged.
C36_Witness ==
    /\ pc = "persist"
    /\ count = 1
    /\ marked = {1}
    /\ Len(inbox) = 1
    /\ ~inbox[1].deleted
    /\ inbox[1].uid \notin gone
    /\ gone # {}

\* C37: a running intake process authorises against the list it read at
\* its start: while it runs, a replacement of EMAIL_AUTH persisted by the
\* interpreter changes neither the list nor which senders the later
\* cycles accept and which they quarantine.
C37_AuthListReadAtStart ==
    /\ mail_auth = EMAIL_AUTH
    /\ pc \in ScanPositions =>
          \A k \in fetched :
             IF check_mail_auth(inbox[k].from, EMAIL_AUTH)
             THEN \A w \in FilesOfIndex(k) : w[2] # OTHR_FOLDER
             ELSE /\ FilesOfIndex(k) # {}
                  /\ \A w \in FilesOfIndex(k) : w[2] = OTHR_FOLDER

\* The dotenv file holds the replacement list, which names the second
\* sender; the cycle has quarantined a message of that sender.
C37_Witness ==
    /\ dotenv_EMAIL_AUTH = NEW_EMAIL_AUTH
    /\ pc = "expunge"
    /\ \E k \in fetched :
          /\ inbox[k].from = UnauthFrom
          /\ check_mail_auth(inbox[k].from, split_on(dotenv_EMAIL_AUTH, ","))
          /\ \E w \in FilesOfIndex(k) : w[2] = OTHR_FOLDER

\* C38: every sequence id under which a body, attachment or quarantine
\* file is written is in 1..9990, also in a cycle that crosses the wrap
\* point.
C38_FileIdsInRange ==
    \A f \in files : f.id \in 1..WrapLimit

\* C39: a message is delivered at most once across invocations: when an
\* invocation has ended, no file whose sendmail call succeeded in it is
\* in the queue folder.
C39_SentFileLeftQueue ==
    SenderEnded =>
       \A k \in 1..Len(se_sendmail) :
          ~se_sendmail[k].raised =>
             QUEUE_DIR \notin se_where[se_sendmail[k].file]

\* The save task has ended.
SaveEnded == sv_pc \in {"exited", "crashed"}

\* C40: the save task exits with 0 only if running_now was copied into
\* the permanent folder under the name given; when running_now holds a
\* powerpoint or impress command the attachment it names has been moved
\* from the attachments folder to the permanent folder before the copy,
\* and when that move failed the task exits with 1 and has copied
\* nothing; without an argument it exits with 1 and changes nothing.
C40_SavedUnderGivenName ==
    /\ sv_exit = 0 =>
          [path |-> <<PERM_FOLDER, sv_argv[1]>>, file |-> sv_now] \in sv_disk
    /\ (sv_pc = "copy" \/ sv_exit = 0) =>
          IF is_show(sv_now.lines[1])
          THEN /\ sv_moved = "ok"
               /\ findall(sv_now.lines[2])[1] \notin sv_atch
               /\ [path |-> <<PERM_FOLDER, findall(sv_now.lines[2])[1]>>,
                   file |-> AtchData] \in sv_disk
          ELSE sv_moved = "none"
    /\ sv_moved = "failed" =>
          sv_pc = "exited" /\ sv_exit = 1 /\ sv_disk = {}
    /\ (SaveEnded /\ sv_argv = <<>>) =>
          sv_exit = 1 /\ sv_disk = {} /\ sv_moved = "none"

====
